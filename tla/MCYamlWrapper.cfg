CONSTANTS
  DocSet <- LookupDocs
  PathSet <- LookupPaths
SPECIFICATION Spec
INVARIANT LookupMatchesDocument IntConversionMatchesC ConfigNeverPartial
