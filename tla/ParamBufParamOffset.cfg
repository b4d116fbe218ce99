\* Params bound in a ParamListInfo, after one int4 Const: expected to be
\* violated, a non-null Param's value is appended but its offset never set.
CONSTANTS
  PoffsetBase = 8
  OffsetSz = 4
  Lists <- MCParamLists
  ParamInfos <- MCParamInfos
  HookFills <- MCHookFills
  NoParamInfo = NoParamInfo
  v1 = v1
  v2 = v2
  int4 = int4
  uuid = uuid
  text = text
SPECIFICATION Spec
CHECK_DEADLOCK FALSE
INVARIANT ParamsReadBack
