\* All files of up to five lines.
SPECIFICATION ParserSpec
CONSTANT MaxLines = 5
INVARIANTS ParserTypeOK StatementsAsWritten EveryTextLineOnce
CHECK_DEADLOCK FALSE
