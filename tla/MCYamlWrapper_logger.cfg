CONSTANTS
  DocSet <- NamedLoggerDocs
  PathSet <- NamePaths
SPECIFICATION Spec
INVARIANT LoggerNameConfigurable
