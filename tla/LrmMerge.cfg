\* Every pair of tables (or NULL) over three keys and two values.
CONSTANTS
  Keys <- MCKeys
  MetaKeys <- MCMetaKeys
  Vals <- MCVals
  Null = Null
SPECIFICATION Spec
INVARIANT TypeOK
INVARIANT MergeMatchesReference
