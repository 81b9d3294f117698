SPECIFICATION FairSpec
CONSTANTS
    Session = {1, 2}
    Name = {"ann", "bob"}
    Image = {"a", "b"}
    Ranged = TRUE
    Ports = 2
    Hash <- SameHash
    Asks <- TwoAsks
    Timeout = 0
    None = None
    MaxContainers = 2
    MaxRestarts = 1
CHECK_DEADLOCK FALSE
 
PROPERTIES IdleContainersGo StartsEnd
