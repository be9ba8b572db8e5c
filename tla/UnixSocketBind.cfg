SPECIFICATION Spec
CONSTANTS NServers = 2
          NClients = 0
          Backlog = 0
PROPERTY BindErrorMeansBindFailed
CHECK_DEADLOCK FALSE
