------------------------------- MODULE CodeJudge -------------------------------
(***************************************************************************)
(* The CGI program that judges submitted code (root/cgi/cgiCodeJudge.cpp): *)
(* main(), compile(), run(), fileNum() and compareFile().  The server      *)
(* starts one process for each submission; all of them work on the same    *)
(* files: code.cpp, ./code, errorStatus.txt, and the samples and the       *)
(* outputs of a problem.                                                   *)
(*                                                                         *)
(* A step is what one process does to the files between two calls that     *)
(* another process can see.  A program is known by what it passes; a file  *)
(* by who wrote it and from what.                                          *)
(*                                                                         *)
(* KeepErrors, ExecWithoutWait and CompareStays are no part of the         *)
(* specification: each is the definition after it with a likely fault,     *)
(* against which a property was tried.                                     *)
(***************************************************************************)
EXTENDS Naturals, FiniteSets

CONSTANTS
  Judges,      (* the processes                                            *)
  Programs,    (* what code.cpp may hold                                   *)
  Broken,      (* programs that do not compile                             *)
  Warned,      (* programs that compile, but not without a warning         *)
  Endless,     (* programs that do not end                                 *)
  NoCode,      (* the empty file, one of the broken ones                   *)
  Problems,    (* problem numbers that a form may hold                     *)
  Cases,       (* the number of samples, of each problem that has any      *)
  OnSample,    (* the samples a program passes on the sample's input       *)
  OnEmpty,     (* the samples a program passes on empty input              *)
  None         (* no file, an empty output, no errors, no verdict          *)

Samples == UNION {{p} \X (1 .. Cases[p]) : p \in DOMAIN Cases}

ASSUME CodeJudgeAssumption ==
  /\ Broken \cup Warned \cup Endless \subseteq Programs
  /\ NoCode \in Broken
  /\ Broken \cap (Warned \cup Endless) = {}
  /\ None \notin Programs \cup Problems
  /\ None \notin [errorsOf : Programs] \cup [passed : Nat]
  /\ None \notin [of : Programs, from : {"given", "empty"}]
  /\ DOMAIN Cases \subseteq Problems
  /\ Cases \in [DOMAIN Cases -> Nat]
  /\ OnSample \in [Programs -> SUBSET Samples]
  /\ OnEmpty \in [Programs -> SUBSET Samples]

VARIABLES
  (* Of each process.                                                      *)
  pc,
  submitted,   (* the program it was given                                 *)
  problem,     (* and for which problem                                    *)
  i,           (* the sample run() is at                                   *)
  acNum,       (* samples passed                                           *)
  verdict,     (* what it printed: a compiler's error or a count           *)
  alone,       (* history: no other process has run beside it              *)
  (* Files.                                                                *)
  codeCpp,     (* code.cpp                                                 *)
  code,        (* ./code: the program it was compiled from                 *)
  errorStatus, (* errorStatus.txt: the program g++ complained about        *)
  inFile,      (* the input of each sample: "given" or "empty"             *)
  codeOut      (* the output for each sample: of which program, from what  *)

form    == <<submitted, problem, alone>>
sources == <<codeCpp, code, errorStatus>>
samples == <<inFile, codeOut>>
vars == <<pc, form, i, acNum, verdict, sources, samples>>

Busy == {j \in Judges : pc[j] \notin {"none", "done"}}

Goto(j, from, to) == pc[j] = from /\ pc' = [pc EXCEPT ![j] = to]

Prints(j, v) == verdict' = [verdict EXCEPT ![j] = v]

(* The sample that run() of j is at.                                       *)
Sample(j) == <<problem[j], i[j]>>

-------------------------------------------------------------------------------
(* main(): code.cpp is written over; without "code=" in the form it is     *)
(* left empty and nothing is printed.  A form without a number leaves      *)
(* problemId at any value.                                                 *)
Submit(j) ==
  /\ pc[j] \in {"none", "done"}
  /\ \E p \in Programs, q \in Problems :
       /\ submitted' = [submitted EXCEPT ![j] = p]
       /\ problem' = [problem EXCEPT ![j] = q]
       /\ codeCpp' = p
       /\ pc' = [pc EXCEPT ![j] = IF p = NoCode THEN "done" ELSE "compile"]
  /\ Prints(j, None)
  /\ alone' = [k \in Judges |-> IF k = j THEN Busy = {} ELSE alone[k] /\ k \notin Busy]
  /\ UNCHANGED <<i, acNum, code, errorStatus, samples>>

(* compile(): the child empties errorStatus.txt and becomes g++.           *)
KeepErrors(j) ==
  /\ Goto(j, "compile", "g++")
  /\ UNCHANGED <<form, i, acNum, verdict, sources, samples>>
EmptyErrors(j) ==
  /\ Goto(j, "compile", "g++")
  /\ errorStatus' = None
  /\ UNCHANGED <<form, i, acNum, verdict, codeCpp, code, samples>>

Gxx(j) ==
  /\ Goto(j, "g++", "compiled")
  /\ errorStatus' = IF codeCpp \in Broken \cup Warned THEN codeCpp ELSE errorStatus
  /\ code' = IF codeCpp \in Broken THEN code ELSE codeCpp
  /\ UNCHANGED <<form, i, acNum, verdict, codeCpp, samples>>

(* An empty errorStatus.txt means success, and run() starts; anything else *)
(* is printed.                                                             *)
CompileFailed(j) ==
  /\ errorStatus # None
  /\ Goto(j, "compiled", "done")
  /\ Prints(j, [errorsOf |-> errorStatus])
  /\ UNCHANGED <<form, i, acNum, sources, samples>>

(* fileNum() of a directory that is not there ends the process, and what   *)
(* it has printed into its buffer is lost.                                 *)
NoSamples(j) ==
  /\ errorStatus = None
  /\ problem[j] \notin DOMAIN Cases
  /\ Goto(j, "compiled", "done")
  /\ UNCHANGED <<form, i, acNum, verdict, sources, samples>>

Compiled(j) ==
  /\ errorStatus = None
  /\ problem[j] \in DOMAIN Cases
  /\ Goto(j, "compiled", "case")
  /\ UNCHANGED <<form, i, acNum, verdict, sources, samples>>

(* run(), the child for sample i: both files are emptied, also the one     *)
(* with the sample's input.                                                *)
OpenFiles(j) ==
  /\ Sample(j) \in Samples
  /\ Goto(j, "case", "exec")
  /\ inFile' = [inFile EXCEPT ![Sample(j)] = "empty"]
  /\ codeOut' = [codeOut EXCEPT ![Sample(j)] = None]
  /\ UNCHANGED <<form, i, acNum, verdict, sources>>

(* execl("./code"), unless there is none, and wait() for its end.          *)
ExecWithoutWait(j) ==
  /\ Goto(j, "exec", "compare")
  /\ UNCHANGED <<form, i, acNum, verdict, sources, samples>>
Exec(j) ==
  /\ Goto(j, "exec", IF code \in Endless THEN "hung" ELSE "compare")
  /\ codeOut' = IF code = None THEN codeOut
                ELSE [codeOut EXCEPT ![Sample(j)] =
                        [of |-> code, from |-> inFile[Sample(j)]]]
  /\ UNCHANGED <<form, i, acNum, verdict, sources, inFile>>

(* compareFile(): whether an output is what the sample asks for.           *)
Accepted(s) ==
  /\ codeOut[s] # None
  /\ s \in IF codeOut[s].from = "given" THEN OnSample[codeOut[s].of]
                                        ELSE OnEmpty[codeOut[s].of]

CompareStays(j) ==
  /\ Goto(j, "compare", "case")
  /\ acNum' = [acNum EXCEPT ![j] = IF Accepted(Sample(j)) THEN 1 ELSE 0]
  /\ UNCHANGED <<form, i, verdict, sources, samples>>
Compare(j) ==
  /\ Goto(j, "compare", "case")
  /\ acNum' = [acNum EXCEPT ![j] = IF Accepted(Sample(j)) THEN @ + 1 ELSE @]
  /\ i' = [i EXCEPT ![j] = @ + 1]
  /\ UNCHANGED <<form, verdict, sources, samples>>

Report(j) ==
  /\ Sample(j) \notin Samples
  /\ Goto(j, "case", "done")
  /\ Prints(j, [passed |-> acNum[j]])
  /\ i' = [i EXCEPT ![j] = 1]
  /\ acNum' = [acNum EXCEPT ![j] = 0]
  /\ UNCHANGED <<form, sources, samples>>

Judge(j) ==
  \/ EmptyErrors(j) \/ Gxx(j) \/ CompileFailed(j) \/ NoSamples(j) \/ Compiled(j)
  \/ OpenFiles(j) \/ Exec(j) \/ Compare(j) \/ Report(j)

-------------------------------------------------------------------------------
Init ==
  /\ pc = [j \in Judges |-> "none"]
  /\ submitted = [j \in Judges |-> None]
  /\ problem = [j \in Judges |-> None]
  /\ i = [j \in Judges |-> 1]
  /\ acNum = [j \in Judges |-> 0]
  /\ verdict = [j \in Judges |-> None]
  /\ alone = [j \in Judges |-> TRUE]
  /\ codeCpp = NoCode /\ code = None /\ errorStatus = None
  /\ inFile = [s \in Samples |-> "given"]
  /\ codeOut = [s \in Samples |-> None]

Next == \E j \in Judges : Submit(j) \/ Judge(j)

Spec == Init /\ [][Next]_vars /\ \A j \in Judges : WF_vars(Judge(j))

-------------------------------------------------------------------------------
(* Properties                                                              *)

Verdict == [errorsOf : Programs] \cup [passed : Nat] \cup {None}
Output  == [of : Programs, from : {"given", "empty"}] \cup {None}

(* The types; run() never leaves the samples of its problem, and counts at *)
(* most the ones it is past.                                               *)
TypeOK ==
  /\ pc \in [Judges -> {"none", "compile", "g++", "compiled", "case", "exec", "hung",
                        "compare", "done"}]
  /\ submitted \in [Judges -> Programs \cup {None}]
  /\ problem \in [Judges -> Problems \cup {None}]
  /\ i \in [Judges -> Nat \ {0}]
  /\ acNum \in [Judges -> Nat]
  /\ verdict \in [Judges -> Verdict]
  /\ alone \in [Judges -> BOOLEAN]
  /\ codeCpp \in Programs
  /\ errorStatus \in Broken \cup Warned \cup {None}
  /\ code \in (Programs \ Broken) \cup {None}
  /\ inFile \in [Samples -> {"given", "empty"}]
  /\ codeOut \in [Samples -> Output]
  /\ \A j \in Judges :
       /\ acNum[j] < i[j]
       /\ pc[j] \in {"exec", "compare", "hung"} => Sample(j) \in Samples

IsError(v) == v \in [errorsOf : Programs]
IsCount(v) == v \in [passed : Nat]

(* A submission during which no other is judged is judged by itself: the   *)
(* errors it is told are its own, and the output that is compared is its   *)
(* own program's, whatever earlier submissions left in the files           *)
(* (cgiCodeJudge.cpp:95-118, 156-171).                                     *)
JudgedByItself ==
  \A j \in Judges : alone[j] =>
    /\ pc[j] = "compare" => /\ codeOut[Sample(j)] # None
                            /\ codeOut[Sample(j)].of = submitted[j]
    /\ IsError(verdict[j]) => verdict[j].errorsOf = submitted[j]
    /\ IsCount(verdict[j]) => submitted[j] \notin Broken \cup Warned

(* Every submission of a program gets a verdict, also when others are      *)
(* judged beside it, unless it runs a program that does not end or its     *)
(* problem has no samples (cgiCodeJudge.cpp:212-216).                      *)
Judged ==
  \A j \in Judges :
    pc[j] = "compile" ~> \/ verdict[j] # None
                         \/ pc[j] = "hung"
                         \/ pc[j] = "done" /\ problem[j] \notin DOMAIN Cases

(* The code module redirects the input of the sample and compares the      *)
(* output with the standard answer (readme.md:13): the count of a          *)
(* submission judged alone is the number of samples that its program       *)
(* passes on their input.  run() empties that input before the program     *)
(* gets it (cgiCodeJudge.cpp:158-159), so this does not hold.              *)
CountsPassedSamples ==
  \A j \in Judges : alone[j] /\ IsCount(verdict[j]) =>
    verdict[j].passed =
      Cardinality({s \in OnSample[submitted[j]] : s[1] = problem[j]})
===============================================================================
