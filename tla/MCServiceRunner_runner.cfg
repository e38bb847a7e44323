SPECIFICATION RunnerFairSpec
CONSTANTS
  s1 = s1
  s2 = s2
  r1 = r1
  r2 = r2
  e1 = e1
  e2 = e2
  pre = pre
  post = post
  topic = topic
  task = task
  Call <- MCCall
  Request <- MCRequest
  Endpoints <- MCEndpoints
  Topic = {topic}
  Task = {task}
  Pre <- MCPre
  Post <- MCPost
CHECK_DEADLOCK FALSE
INVARIANT RoutedIsReady LoadedOnce
PROPERTY RequestsAreAnswered
