-------------------------- MODULE MigrationParser --------------------------
(***************************************************************************)
(* migration.Parser (src/migration/parser.go): ParseMigrationFile splits a *)
(* file into statements.  The file is read line by line; the model lets    *)
(* every next line be of any kind.  A line is its kind, and a statement is *)
(* the sequence of the numbers of the lines it is made of, which the code  *)
(* concatenates with nothing between them.                                 *)
(*                                                                         *)
(* A line longer than the scanner's buffer ends the scan without an error: *)
(* what is returned is the result of the file up to that line.             *)
(***************************************************************************)
EXTENDS Naturals, FiniteSets, Sequences, SequencesExt, Functions

CONSTANT MaxLines   \* bound: lines of the file

ASSUME ParserAssumption == MaxLines \in Nat

\* The markers as README.md writes them, a line of white space, and one line for
\* each thing that the code asks of any other: whether it begins with "--" or "/*",
\* and whether it has "/*" and "*/" in it.  What follows "*/" on a line of "x*/" is
\* not modelled; "x/*x*/" is SQL beside a comment that takes no other line.
Starts == {"--+start", "--+START"}
Ends == {"--+end", "--+END"}
Markers == Starts \cup Ends
Kinds == Markers \cup {"blank", "x", "x*/", "x/*x", "x/*x*/", "/*x", "/*x*/",
                         "--x", "--x*/", "--/*x", "--/*x*/"}

VARIABLES lines,             \* the lines read so far
          statements,        \* the statements found
          statementBuilder,  \* the lines of the statement being built
          multiLineComment,
          eof

parserVars == <<lines, statements, statementBuilder, multiLineComment, eof>>

ParserInit ==
  /\ lines = <<>>
  /\ statements = <<>>
  /\ statementBuilder = <<>>
  /\ multiLineComment = FALSE
  /\ eof = FALSE

-----------------------------------------------------------------------------
isStatementStart(line) == line \in Starts

\* Unlike the start marker, the end marker is not converted to lower case.
isStatementEnd(line) == line = "--+end"

Begins(line) == line \in Markers \cup {"--x", "--x*/", "--/*x", "--/*x*/", "/*x", "/*x*/"}
Opens(line) == line \in {"x/*x", "x/*x*/", "/*x", "/*x*/", "--/*x", "--/*x*/"}
Closes(line) == line \in {"x*/", "x/*x*/", "/*x*/", "--x*/", "--/*x*/"}

\* Mutant of checkComment: the line that closes a comment is not part of it.
checkCommentOpenEnd(line, multiline) ==
  LET goesOn == /\ multiline => ~Opens(line)
                /\ ~multiline => Opens(line)
                /\ ~Closes(line)
  IN  <<goesOn \/ Begins(line), goesOn>>

\* Whether the line is (of) a comment, and whether the comment goes on.  What is
\* asked first is whether there is a "/*", wherever it stands: after "--" it opens a
\* comment, after SQL too, with the SQL in it, and within a comment it ends the
\* comment.
checkComment(line, multiline) ==
  LET goesOn == /\ multiline => ~Opens(line)
                /\ ~multiline => Opens(line)
                /\ ~Closes(line)
  IN  <<goesOn \/ (multiline /\ Closes(line)) \/ Begins(line), goesOn>>

addAndReset ==
  /\ statements' = Append(statements, statementBuilder)
  /\ statementBuilder' = <<>>
  /\ multiLineComment' = FALSE

Scan(line) ==
  /\ ~eof
  /\ Len(lines) < MaxLines
  /\ lines' = Append(lines, line)
  /\ UNCHANGED eof

EmptyLine(line) ==
  /\ Scan(line)
  /\ line = "blank"
  /\ UNCHANGED <<statements, statementBuilder, multiLineComment>>

\* Mutants of StatementStart: the statement without an end marker is not added,
\* or forgotten.
StatementStartIgnored(line) ==
  /\ Scan(line)
  /\ isStatementStart(line)
  /\ UNCHANGED <<statements, statementBuilder, multiLineComment>>

StatementStartDrops(line) ==
  /\ Scan(line)
  /\ isStatementStart(line)
  /\ statementBuilder' = <<>>
  /\ UNCHANGED <<statements, multiLineComment>>

\* The next statement begins; the one before may lack its end marker.
StatementStart(line) ==
  /\ Scan(line)
  /\ isStatementStart(line)
  /\ IF statementBuilder # <<>> THEN addAndReset
     ELSE UNCHANGED <<statements, statementBuilder, multiLineComment>>

\* Also a statement without a line is added.
StatementEnd(line) ==
  /\ Scan(line)
  /\ isStatementEnd(line)
  /\ addAndReset

Comment(line) ==
  /\ Scan(line)
  /\ line # "blank" /\ ~isStatementStart(line) /\ ~isStatementEnd(line)
  /\ checkComment(line, multiLineComment)[1]
  /\ multiLineComment' = checkComment(line, multiLineComment)[2]
  /\ UNCHANGED <<statements, statementBuilder>>

\* Everything else makes up the statement.
TextLine(line) ==
  /\ Scan(line)
  /\ line # "blank" /\ ~isStatementStart(line) /\ ~isStatementEnd(line)
  /\ ~checkComment(line, multiLineComment)[1]
  /\ statementBuilder' = Append(statementBuilder, Len(lines'))
  /\ multiLineComment' = FALSE
  /\ UNCHANGED statements

\* Mutant of EndOfFile: a statement without an end marker stays behind.
EndOfFileOnly ==
  /\ ~eof
  /\ eof' = TRUE
  /\ UNCHANGED <<lines, statements, statementBuilder, multiLineComment>>

\* The last statement may lack its end marker, too.
EndOfFile ==
  /\ ~eof
  /\ eof' = TRUE
  /\ IF statementBuilder # <<>> THEN addAndReset
     ELSE UNCHANGED <<statements, statementBuilder, multiLineComment>>
  /\ UNCHANGED lines

ParserNext ==
  \/ EndOfFile
  \/ \E line \in Kinds : \/ EmptyLine(line) \/ StatementStart(line) \/ StatementEnd(line)
                         \/ Comment(line) \/ TextLine(line)

ParserSpec == ParserInit /\ [][ParserNext]_parserVars

-----------------------------------------------------------------------------
(* What a file means, by src/migration/README.md and the rules of SQL      *)

Numbers == DOMAIN lines

\* s is the given numbers in increasing order, each of them once.
InOrder(s, numbers) ==
  /\ Range(s) = numbers
  /\ \A i, j \in DOMAIN s : i < j => s[i] < s[j]

\* Line i is inside a comment that an earlier line opened, or closes it.
Inside(i) == \E o \in 1 .. i - 1 : /\ lines[o] = "/*x"
                                   /\ \A m \in o + 1 .. i - 1 : ~Closes(lines[m])
SQL == {"x", "x/*x*/"}
TextLines == {i \in Numbers : lines[i] \in SQL /\ ~Inside(i)}

\* Comments that the code can tell: one that takes several lines begins with its
\* first line, which has no SQL on it, and has no marker or other comment in it.
\* And no line has "/*" after "--", where to SQL it opens nothing.
InComment == {"blank", "x", "x*/", "--x", "--x*/"}
ProperComments ==
  /\ \A i \in Numbers : lines[i] \notin {"x/*x", "--/*x"}
  /\ \A i \in Numbers : Inside(i) => lines[i] \in InComment
  /\ \A i \in Numbers : lines[i] = "x*/" => Inside(i)

\* The last marker before line i, 0 if there is none.
MarkerBefore(i) ==
  LET before == {m \in 1 .. i - 1 : lines[m] \in Markers}
  IN  CHOOSE m \in before \cup {0} : \A n \in before : n <= m

\* The lines of the block that the marker at m begins.
Block(m) == {i \in TextLines : MarkerBefore(i) = m}

\* "each statement should be written inside start and end markers", of which the
\* end marker is optional: SQL follows a start marker, and an end marker a
\* statement.
ProperMarkers ==
  /\ \A i \in TextLines : MarkerBefore(i) # 0 /\ lines[MarkerBefore(i)] \in Starts
  /\ \A i \in Numbers : lines[i] \in Ends => \E t \in TextLines : /\ t < i
                                                                  /\ MarkerBefore(t) = MarkerBefore(i)

\* The markers that begin a block with SQL, and the place of one of them among them.
Begun == {MarkerBefore(i) : i \in TextLines}
Place(m) == Cardinality({b \in Begun : b <= m})

-----------------------------------------------------------------------------
(* Properties                                                              *)

\* The variables have their types.
ParserTypeOK ==
  /\ lines \in Seq(Kinds)
  /\ statements \in Seq(Seq(Numbers))
  /\ statementBuilder \in Seq(Numbers)
  /\ multiLineComment \in BOOLEAN /\ eof \in BOOLEAN
  /\ eof => statementBuilder = <<>>

\* README.md: in a file that is written as it should be, the statements are the
\* blocks between the markers, "the next start marker it encounters or the end of
\* the file is an implicit end marker", and "the markers are case-insensitive".
StatementsAsWritten ==
  eof /\ ProperComments /\ ProperMarkers =>
    /\ Len(statements) = Cardinality(Begun)
    /\ \A m \in Begun : InOrder(statements[Place(m)], Block(m))

\* In any file, a line gets into a statement once at most, after the lines before it,
\* and never a blank line, a marker or a line that begins as a comment; a line of SQL
\* is left out only after a line that opens a comment, as the code sees it.  Where
\* the code and SQL agree about comments, the lines that get in are those of SQL.
EveryTextLineOnce ==
  LET taken == FlattenSeq(statements) \o statementBuilder
  IN  /\ InOrder(taken, Range(taken))
      /\ \A i \in Range(taken) : lines[i] # "blank" /\ ~Begins(lines[i])
      /\ \A i \in Numbers \ Range(taken) :
           lines[i] \in SQL => \E o \in 1 .. i - 1 : Opens(lines[o]) /\ ~Closes(lines[o])
      /\ ProperComments => Range(taken) = TextLines
=============================================================================
