---------------------------- MODULE ClientConfig ----------------------------
(***************************************************************************)
(* How the original client reads its configuration (client/buffer.go): a   *)
(* line is a name and a value; the first value that is no number, or is no *)
(* list of numbers, ends it.  Lines without a value are skipped, and left  *)
(* out here.                                                               *)
(***************************************************************************)
EXTENDS Integers, SequencesExt

CONSTANT NotANumber  \* a value that Atoi refuses

IntegerNames ==
  {"semaphoreCount", "tiles", "segments", "segmentTime", "requestSize", "responseSize",
   "initialSize"}

\* The zero value of ConfigurableImpl, which is left if there is no file.
NewConfigurable ==
  [name \in IntegerNames \cup {"adaptRate"} |-> IF name = "adaptRate" THEN << >> ELSE 0]

Atoi(value) == IF value = NotANumber THEN 0 ELSE value

ParseArray(elements) == IF NotANumber \in ToSet(elements) THEN << >> ELSE elements

\* A line of the file: what it sets, and whether it is an error.  An unknown name
\* is skipped.  The field is assigned before the error is looked at.
ReadConfigLine(read, line) ==
  IF read.failed \/ line.name \notin DOMAIN read.config THEN read
  ELSE IF line.name = "adaptRate"
  THEN [config |-> [read.config EXCEPT !.adaptRate = ParseArray(line.value)],
        failed |-> NotANumber \in ToSet(line.value)]
  ELSE [config |-> [read.config EXCEPT ![line.name] = Atoi(line.value)],
        failed |-> line.value = NotANumber]

\* The caller ignores the error, and goes on with what was read before it.
ReadFile(lines) ==
  FoldLeft(ReadConfigLine, [config |-> NewConfigurable, failed |-> FALSE], lines).config
=============================================================================
