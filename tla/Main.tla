-------------------------------- MODULE Main --------------------------------
(***************************************************************************)
(* The whole tool (main.cpp, LibtoolingClasses.h).  clang runs over the    *)
(* source files and MyASTConsumer saves an AST file for each, under the    *)
(* next of the names main has prepared; main loads the AST files in the    *)
(* order of the names, builds the call graph of what is in them and        *)
(* analyses it (Boundary).                                                 *)
(*                                                                         *)
(* ClangTool is not part of the repository.  It passes over a file without *)
(* a compile command, and goes on after one that it cannot compile.  No    *)
(* file has more than one compile command.                                 *)
(***************************************************************************)
EXTENDS Boundary, SequencesExt

CONSTANTS
  Missing,      \* there is no such AST file
  Old,          \* an AST file of an earlier run, which defines no function
  Troubled      \* the programs for which the front end may fail

\* The declarations of each source file: those of the program, in order.
ASSUME UnitsAssumption ==
  \A q \in Program : q.units \in Seq(Seq(Decl)) /\ FlattenSeq(q.units) = q.stream
ASSUME TroubledAssumption == Troubled \subseteq Program

VARIABLES
  front,        \* "run", "load", "loaded", or "gone" once main has given up
  source,       \* the source file that clang is at
  file_it,      \* the next name
  disk,         \* the AST files: whose AST each one is
  result,       \* what tool.run returns
  Units,        \* the ASTs loaded
  complete      \* history: no file was passed over, no AST failed to be saved

frontend == <<front, source, file_it, disk, result, Units, complete>>
all == <<allVars, frontend>>

Files == 1 .. Len(program.units)

MainInit ==
  /\ AnalysisInit
  /\ front = "run"
  /\ source = 1
  /\ file_it = 1
  /\ \E left \in IF program \in Troubled THEN SUBSET Files ELSE {{}} :
       disk = [f \in Files |-> IF f \in left THEN Old ELSE Missing]
  /\ result = 0
  /\ Units = <<>>
  /\ complete = TRUE

\* Slip: every AST file gets the same name.
SaveUnderFirst(saved) ==
  /\ disk' = IF saved THEN [disk EXCEPT ![file_it] = source] ELSE disk
  /\ UNCHANGED file_it

\* Save the AST of the source file under the next name.  Nobody looks whether
\* it could be saved.
HandleTranslationUnit(saved) ==
  IF file_it \in Files
    THEN /\ disk' = IF saved THEN [disk EXCEPT ![file_it] = source] ELSE disk
         /\ file_it' = file_it + 1
    ELSE UNCHANGED <<disk, file_it>>

\* clang has no compile command for the source file, or cannot open it, or
\* compiles it, with errors or without.
RunSource ==
  /\ front = "run"
  /\ source \in Files
  /\ source' = source + 1
  /\ \/ /\ program \in Troubled
        /\ complete' = FALSE
        /\ UNCHANGED <<file_it, disk, result>>
     \/ /\ program \in Troubled
        /\ result' = 1
        /\ UNCHANGED <<file_it, disk, complete>>
     \/ \E saved, errors \in IF program \in Troubled THEN BOOLEAN ELSE {TRUE} :
          /\ HandleTranslationUnit(saved)
          /\ result' = IF errors /\ program \in Troubled THEN 1 ELSE result
          /\ complete' = (complete /\ saved)
  /\ UNCHANGED <<allVars, front, Units>>

EndRun ==
  /\ front = "run"
  /\ source \notin Files
  /\ front' = "load"
  /\ UNCHANGED <<allVars, source, file_it, disk, result, Units, complete>>

\* main gives up when an AST file cannot be loaded.
LoadUnit ==
  /\ front = "load"
  /\ Len(Units) < Len(program.units)
  /\ LET ast == disk[Len(Units) + 1]
     IN  IF ast = Missing THEN front' = "gone" /\ UNCHANGED Units
                          ELSE Units' = Append(Units, ast) /\ UNCHANGED front
  /\ UNCHANGED <<allVars, source, file_it, disk, result, complete>>

\* The program analysed is what the ASTs hold.
EndLoad ==
  /\ front = "load"
  /\ Len(Units) = Len(program.units)
  /\ front' = "loaded"
  /\ program' = [program EXCEPT !.stream =
                   FlattenSeq([f \in Files |-> IF Units[f] = Old THEN <<>>
                                               ELSE program.units[Units[f]]])]
  /\ UNCHANGED <<visited, graph, order, it, it2, analysis,
                 source, file_it, disk, result, Units, complete>>

Analyse == front = "loaded" /\ AnalysisNext /\ UNCHANGED frontend

MainNext == RunSource \/ EndRun \/ LoadUnit \/ EndLoad \/ Analyse

MainSpec == MainInit /\ [][MainNext]_all

\* The tool is one process that runs.
FairMain == MainSpec /\ WF_all(MainNext)
-----------------------------------------------------------------------------
(***************************************************************************)
(* Properties.                                                             *)
(***************************************************************************)
\* The tool never reports on ASTs that were saved under a wrong name or left
\* by an earlier run as if nothing had happened: unless a file was passed over
\* or an AST could not be saved, which nobody notices, the results are those
\* of the source files or main gives up or returns an error (main.cpp:152,
\* LibtoolingClasses.h:88).
NothingStale ==
  front = "loaded" /\ complete /\ result = 0 => Units = [f \in Files |-> f]
=============================================================================
