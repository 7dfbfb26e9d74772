-------------------------- MODULE MCOriginalClient --------------------------
(* Instance of OriginalClient: configuration files.                        *)
EXTENDS OriginalClient

Line(name, value) == [name |-> name, value |-> value]

\* None; one in which a value before the semaphore's is an error; and files that
\* set it, of which the last is not as it should be.
MCConfigFiles ==
  {<< >>,
   <<Line("adaptRate", <<1, NotANumber>>), Line("semaphoreCount", 1)>>,
   <<Line("unknown", 5), Line("tiles", 2), Line("semaphoreCount", 1), Line("segments", NotANumber),
     Line("semaphoreCount", 7)>>,
   <<Line("adaptRate", <<1, 2>>), Line("semaphoreCount", 2)>>,
   <<Line("semaphoreCount", -1)>>}
=============================================================================
