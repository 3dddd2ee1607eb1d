SPECIFICATION Spec
CHECK_DEADLOCK FALSE
CONSTANTS
  Names <- MCNames
  ParamLists <- MCParamLists
  FieldLists <- MCFieldLists
  UnionLists <- MCUnionLists
  MemberLists <- MCMemberLists
  Signatures <- MCSignatures
  MethodLists <- MCMethodLists
  Imported <- MCImported
  ImportedEnums <- MCImportedEnums
  MaxTokens = 6
INVARIANTS
  SelfReferencesFound
  NamesInScope
  TagsMatchMembers
