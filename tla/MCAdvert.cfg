SPECIFICATION AdvertSpec
CONSTANTS
  Texts <- MCTexts
  Names <- MCNames
  Data <- MCData
  MaxPayload = 31
  MaxRecords = 3
INVARIANTS
  ServicesFound
  FieldsRead
  TextKeepsUuid
CHECK_DEADLOCK FALSE
