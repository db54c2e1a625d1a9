SPECIFICATION MCSpec
CONSTANTS
  Half = 8
  Fuel = 40
  Programs <- MCPrograms
  Library <- MCLibrary
  Inputs <- MCInputs
  Codes <- MCCodes
  RegisterCounts <- MCCounts
  ArgLists <- MCArgLists
  FlowGraphs <- MCFlowGraphs
  Cfgs <- MCCfgs
  Texts <- MCTexts
INVARIANTS CompilersAgree PassesPreserve DominanceExact VersionsExact SsaStrict NoSharing AllocationSound DataflowExact
CHECK_DEADLOCK FALSE
