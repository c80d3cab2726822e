SPECIFICATION FairSpec
CONSTANTS
  Courses <- MCCourses
  Text = Text
  Behind = 1
  Ahead = 5
  Lookaheads <- MCLookaheads
  Drifts <- MCDrifts
  Slack = 2
INVARIANT TypeOK
INVARIANT OnCourse
PROPERTY GoalsReach
PROPERTY Recovers
