SPECIFICATION Spec
CONSTANTS
  Images = {"netflix", "port80"}
  MaxTests = 2
  MaxNames = 2
  MaxOffered = 3
  MaxStarts = 2
INVARIANTS TypeOK TestsAsRequested TriesAccountedFor ServersReady WebsocketsReleased ReuseOnlyFromFile
PROPERTY ImplementsLoop
