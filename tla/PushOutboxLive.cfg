SPECIFICATION OutboxSpec
CONSTANTS
  Processes = {"p1"}
  Tenants = {"t1", "t2"}
  Notifications = {"n1", "n2"}
  Tokens = {"k1"}
  Home <- MCHome
  MaxGenerations <- MCGenerations
  Deployments <- MCDeployments
  Slots = 1
  HttpConcurrency = 1
  MaxAttempts = 2
  MaxFaults = 1
PROPERTIES NotificationsEnd
CHECK_DEADLOCK FALSE
