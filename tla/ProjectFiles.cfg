SPECIFICATION Spec
CONSTANTS
  Inputs = {"db.go", "rpc.go"}
  Outputs = {"db_gen.go"}
  Owned = {"Makefile", "shop.yaml"}
  Seeds = {"shop.go"}
  Deps = {"go.mod"}
  Overwritable = {"shop.yaml"}
  Source <- ConstSource
  Needs <- ConstNeeds
  Artifact <- ConstArtifact
  Order <- ConstOrder
  Services = {"game", "shop", "hand"}
  Base = "game"
  ByHand = "hand"
  Cmds = {"c1", "c2"}
  MaxEvents = 3
CHECK_DEADLOCK FALSE
PROPERTIES WorkKept DeclarationsKept SuccessMeansCurrent AllOrNothing CommandsEnd
