-------------------------- MODULE GrammarFetchProofs --------------------------
(***************************************************************************)
(* However many runs fetch at once, whatever fails and whichever is        *)
(* killed: what the directory of a grammar holds, for any processes,       *)
(* files, revisions and number of faults.                                  *)
(***************************************************************************)
EXTENDS GrammarFetch, TLAPS

\* What every step leaves alone: what is hosted, and whether git has the directory.
LEMMA SettingFixed ==
    ASSUME [Next]_vars
    PROVE checkout' = checkout /\ hosted' = hosted /\ Downloads' = Downloads
<1>1. checkout' = checkout /\ hosted' = hosted
  BY DEF Next, AllDone, Work, Crash, ReadParser, CheckDir, AskGit, FallBack, GitBegin, GitWrite,
         GitEnd, GitFail, Request, MkdirTemp, Unpack, MakeRoom, Rename, Again, disk, vars
<1> QED
  BY <1>1 DEF Downloads

\* The directory is there or not, and empty.
LEMMA InitIInv == Init => IInv
<1> SUFFICES ASSUME Init PROVE IInv
  OBVIOUS
<1>1. TypeOK
  BY FetchAssumption DEF Init, TypeOK, Places
<1>2. OneRevision
  <2>1. PICK p \in Procs : TRUE
    BY FetchAssumption
  <2>2. Wants[p] \in Revs
    BY FetchAssumption
  <2> QED
    BY <2>2 DEF Init, OneRevision
<1>3. Staged
  BY DEF Init, Staged, Keeping
<1>4. Read /\ NoGit /\ WholeOrNothing
  BY DEF Init, Read, NoGit, WholeOrNothing
<1> QED
  BY <1>1, <1>2, <1>3, <1>4 DEF IInv, Init

\* A step that leaves the directory of the grammar alone and moves one process, outside of
\* its own directory and of git, to a place before, after or around it.
LEMMA MoveKeeps ==
    ASSUME IInv, NEW p \in Procs, NEW place \in Places,
           pc' = [pc EXCEPT ![p] = place],
           staging' = [staging EXCEPT ![p] = << >>],
           place \notin Keeping,
           place = "ok" => got'[p] # {} /\ got'[p] \subseteq files,
           got' \in [Procs -> SUBSET (Files \X Revs)],
           \A q \in Procs \ {p} : got'[q] = got[q],
           Downloads => place \notin {"git", "clone", "inGit", "inClone"},
           checkout' = checkout, hosted' = hosted, files' = files,
           there' \in BOOLEAN, ~there' => files = {},
           faults' \in 0 .. MaxFaults
    PROVE IInv'
<1> USE DEF IInv
<1>1. TypeOK'
  BY DEF TypeOK
<1>2. Staged'
  <2> SUFFICES ASSUME NEW q \in Procs
               PROVE /\ pc'[q] \in Keeping => \E s \in SUBSET Tree(Wants[q]) : staging'[q] = <<s>>
                     /\ pc'[q] \notin Keeping => staging'[q] = << >>
                     /\ pc'[q] \in {"room", "rename"} => staging'[q] = <<Tree(Wants[q])>>
    BY DEF Staged, Unpacked, Tree
  <2>1. CASE q = p
    BY <2>1 DEF TypeOK, Keeping
  <2>2. CASE q # p
    <3>1. pc'[q] = pc[q] /\ staging'[q] = staging[q]
      BY <2>2 DEF TypeOK
    <3> QED
      BY <3>1 DEF Staged, Unpacked
  <2> QED
    BY <2>1, <2>2
<1>3. Read'
  BY DEF Read, TypeOK
<1>4. NoGit'
  BY DEF NoGit, TypeOK, Downloads
<1>5. OneRevision' /\ WholeOrNothing'
  BY DEF OneRevision, WholeOrNothing, Downloads, Tree
<1> QED
  BY <1>1, <1>2, <1>3, <1>4, <1>5

\* A process that has no directory of its own keeps none.
LEMMA NoneToRemove ==
    ASSUME IInv, NEW p \in Procs, pc[p] \notin Keeping
    PROVE staging = [staging EXCEPT ![p] = << >>]
<1>1. staging[p] = << >>
  BY DEF IInv, Staged
<1> QED
  BY <1>1 DEF IInv, TypeOK

\* Source reads the parser, or finds none.
LEMMA ReadIInv ==
    ASSUME IInv, NEW p \in Procs, ReadParser(p)
    PROVE IInv'
<1> DEFINE place == IF files \cap Parsers # {} THEN "ok"
                    ELSE IF pc[p] = "start" THEN "check" ELSE "failed"
<1>1. staging' = [staging EXCEPT ![p] = << >>]
  BY NoneToRemove DEF ReadParser, Keeping
<1>2. /\ got' = [got EXCEPT ![p] = files \cap Parsers] /\ pc' = [pc EXCEPT ![p] = place]
      /\ UNCHANGED <<checkout, hosted, there, files, faults>>
  BY DEF ReadParser, Goto, disk
<1>3. place \in Places \ Keeping /\ place \notin {"git", "clone", "inGit", "inClone"}
  BY DEF Places, Keeping
<1>4. /\ got' \in [Procs -> SUBSET (Files \X Revs)] /\ \A q \in Procs \ {p} : got'[q] = got[q]
      /\ got'[p] = files \cap Parsers
  BY <1>2 DEF IInv, TypeOK
<1>5. place = "ok" => got'[p] # {} /\ got'[p] \subseteq files
  BY <1>4
<1> HIDE DEF place
<1>6. there' \in BOOLEAN /\ faults' \in 0 .. MaxFaults /\ (~there' => files = {})
  BY <1>2 DEF IInv, TypeOK
<1> QED
  BY <1>1, <1>2, <1>3, <1>4, <1>5, <1>6, MoveKeeps

\* Looking at the directory, asking whether git has it, and turning to clone or download.
LEMMA LookIInv ==
    ASSUME IInv, NEW p \in Procs, CheckDir(p) \/ AskGit(p) \/ FallBack(p) \/ Again(p)
    PROVE IInv'
<1> DEFINE place == pc'[p]
<1>1. staging' = [staging EXCEPT ![p] = << >>]
  BY NoneToRemove DEF CheckDir, AskGit, FallBack, Again, Jump, Keeping
<1>2. /\ got' = got /\ pc' = [pc EXCEPT ![p] = place]
      /\ UNCHANGED <<checkout, hosted, files, faults>> /\ place \in Places \ Keeping /\ place # "ok"
  BY DEF CheckDir, AskGit, FallBack, Again, Jump, Goto, Places, Keeping, disk, IInv, TypeOK
<1>3. Downloads => place \notin {"git", "clone", "inGit", "inClone"}
  BY DEF CheckDir, AskGit, FallBack, Again, Jump, Goto, Downloads, IInv, TypeOK
<1>4. there' \in BOOLEAN /\ (~there' => files = {})
  BY DEF CheckDir, AskGit, FallBack, Again, disk, IInv, TypeOK
<1>5. faults' \in 0 .. MaxFaults /\ got' \in [Procs -> SUBSET (Files \X Revs)]
  BY <1>2 DEF IInv, TypeOK
<1> HIDE DEF place
<1> QED
  BY <1>1, <1>2, <1>3, <1>4, <1>5, MoveKeeps

\* git begins, ends or gives up.
LEMMA GitIInv ==
    ASSUME IInv, NEW p \in Procs, GitBegin(p) \/ GitEnd(p) \/ GitFail(p)
    PROVE IInv'
<1> DEFINE place == pc'[p]
<1>1. pc[p] \in {"git", "clone", "inGit", "inClone"}
  BY DEF GitBegin, GitEnd, GitFail, Busy
<1>2. ~Downloads
  BY <1>1 DEF IInv, NoGit
<1>3. staging' = [staging EXCEPT ![p] = << >>]
  BY <1>1, NoneToRemove DEF GitBegin, GitEnd, GitFail, Keeping
<1>4. /\ got' = got /\ pc' = [pc EXCEPT ![p] = place]
      /\ UNCHANGED <<checkout, hosted, files>> /\ place \in Places \ Keeping /\ place # "ok"
  BY <1>1 DEF GitBegin, GitEnd, GitFail, Goto, Places, Keeping, disk, IInv, TypeOK
<1>5. there' \in BOOLEAN /\ (~there' => files = {})
  BY DEF GitBegin, GitEnd, GitFail, disk, IInv, TypeOK
<1>6. faults' \in 0 .. MaxFaults
  BY FetchAssumption DEF GitBegin, GitEnd, GitFail, IInv, TypeOK
<1>7. got' \in [Procs -> SUBSET (Files \X Revs)]
  BY <1>4 DEF IInv, TypeOK
<1> HIDE DEF place
<1> QED
  BY <1>2, <1>3, <1>4, <1>5, <1>6, <1>7, MoveKeeps

\* git writes a file of the revision it was asked for, next to others of the same.
LEMMA GitWriteIInv ==
    ASSUME IInv, NEW p \in Procs, GitWrite(p)
    PROVE IInv'
<1>1. PICK f \in Files : files' = files \cup {<<f, Wants[p]>>}
  BY DEF GitWrite
<1>2. /\ there /\ files \subseteq Tree(Wants[p]) /\ pc[p] \in {"inGit", "inClone"}
      /\ UNCHANGED <<checkout, hosted, there, pc, staging, got, faults>>
  BY DEF GitWrite, Mine, Busy
<1>3. Wants[p] \in Revs
  BY FetchAssumption
<1>4. files' \subseteq Tree(Wants[p])
  BY <1>1, <1>2 DEF Tree
<1>5. OneRevision'
  BY <1>3, <1>4 DEF OneRevision, Tree
<1>6. ~Downloads
  BY <1>2 DEF IInv, NoGit
<1>7. TypeOK'
  BY <1>1, <1>2, <1>3 DEF IInv, TypeOK
<1>8. Staged' /\ NoGit' /\ WholeOrNothing'
  BY <1>2, <1>6 DEF IInv, Staged, Unpacked, NoGit, WholeOrNothing, Downloads, Tree
<1>9. Read'
  BY <1>1, <1>2 DEF IInv, Read
<1> QED
  BY <1>2, <1>5, <1>7, <1>8, <1>9 DEF IInv

\* The server answers or does not; a run is killed, wherever it is.
LEMMA LeaveIInv ==
    ASSUME IInv, NEW p \in Procs, Request(p) \/ Crash(p)
    PROVE IInv'
<1> DEFINE place == pc'[p]
<1>1. staging' = [staging EXCEPT ![p] = << >>]
  BY NoneToRemove DEF Request, Crash, Jump, Unstage, Keeping
<1>2. /\ got' = got /\ pc' = [pc EXCEPT ![p] = place]
      /\ UNCHANGED <<checkout, hosted, there, files>>
      /\ place \in Places \ Keeping /\ place \notin {"ok", "git", "clone", "inGit", "inClone"}
  BY DEF Request, Crash, Jump, Goto, Places, Keeping, disk, IInv, TypeOK
<1>3. faults' \in 0 .. MaxFaults
  BY FetchAssumption DEF Request, Crash, Fault, IInv, TypeOK
<1>4. /\ there' \in BOOLEAN /\ (~there' => files = {})
      /\ got' \in [Procs -> SUBSET (Files \X Revs)]
  BY <1>2 DEF IInv, TypeOK
<1> HIDE DEF place
<1> QED
  BY <1>1, <1>2, <1>3, <1>4, MoveKeeps

\* A step of a process in its own directory leaves the grammar's alone.
LEMMA OwnKeeps ==
    ASSUME IInv, NEW p \in Procs, NEW place \in Keeping, NEW s \in SUBSET Tree(Wants[p]),
           pc' = [pc EXCEPT ![p] = place],
           staging' = [staging EXCEPT ![p] = <<s>>],
           place # "unpack" => s = Tree(Wants[p]),
           there' \in BOOLEAN, ~there' => files = {},
           UNCHANGED <<checkout, hosted, files, got>>,
           faults' \in 0 .. MaxFaults
    PROVE IInv'
<1> USE DEF IInv
<1>1. place \in Places \ {"ok", "git", "clone", "inGit", "inClone"}
  BY DEF Keeping, Places
<1>2. s \in SUBSET (Files \X Revs)
  BY FetchAssumption DEF Tree
<1>3. TypeOK'
  BY <1>1, <1>2 DEF TypeOK
<1>4. Staged'
  <2> SUFFICES ASSUME NEW q \in Procs
               PROVE /\ pc'[q] \in Keeping => \E u \in SUBSET Tree(Wants[q]) : staging'[q] = <<u>>
                     /\ pc'[q] \notin Keeping => staging'[q] = << >>
                     /\ pc'[q] \in {"room", "rename"} => staging'[q] = <<Tree(Wants[q])>>
    BY DEF Staged, Unpacked, Tree
  <2>1. CASE q = p
    BY <2>1 DEF TypeOK, Keeping
  <2>2. CASE q # p
    <3>1. pc'[q] = pc[q] /\ staging'[q] = staging[q]
      BY <2>2 DEF TypeOK
    <3> QED
      BY <3>1 DEF Staged, Unpacked
  <2> QED
    BY <2>1, <2>2
<1>5. Read' /\ NoGit'
  BY <1>1 DEF Read, NoGit, TypeOK, Downloads
<1>6. OneRevision' /\ WholeOrNothing'
  BY DEF OneRevision, WholeOrNothing, Downloads, Tree
<1> QED
  BY <1>3, <1>4, <1>5, <1>6

\* The download begins: an empty directory of its own.
LEMMA MkdirTempIInv ==
    ASSUME IInv, NEW p \in Procs, MkdirTemp(p)
    PROVE IInv'
<1>1. "unpack" \in Keeping /\ {} \in SUBSET Tree(Wants[p])
  BY DEF Keeping
<1>2. /\ pc' = [pc EXCEPT ![p] = "unpack"] /\ staging' = [staging EXCEPT ![p] = <<{}>>]
      /\ UNCHANGED <<checkout, hosted, there, files, got, faults>>
  BY DEF MkdirTemp, Jump, Goto, disk
<1>3. there' \in BOOLEAN /\ (~there' => files = {}) /\ faults' \in 0 .. MaxFaults
  BY <1>2 DEF IInv, TypeOK
<1> QED
  BY <1>1, <1>2, <1>3, OwnKeeps

\* A file of the archive, the end of it, or an error.
LEMMA UnpackIInv ==
    ASSUME IInv, NEW p \in Procs, Unpack(p)
    PROVE IInv'
<1>1. PICK s \in SUBSET Tree(Wants[p]) : staging[p] = <<s>>
  BY DEF Unpack, Keeping, IInv, Staged
<1>2. pc[p] = "unpack" /\ UNCHANGED <<checkout, hosted, there, files, got>>
  BY DEF Unpack, disk
<1>3. there' \in BOOLEAN /\ (~there' => files = {})
  BY <1>2 DEF IInv, TypeOK
<1>4. staging[p][1] = s
  BY <1>1
<1>5. CASE \E f \in Files : /\ staging' = [staging EXCEPT ![p] = <<@[1] \cup {<<f, Wants[p]>>}>>]
                           /\ UNCHANGED <<pc, faults>>
  <2>1. PICK f \in Files : /\ staging' = [staging EXCEPT ![p] = <<@[1] \cup {<<f, Wants[p]>>}>>]
                          /\ UNCHANGED <<pc, faults>>
    BY <1>5
  <2> DEFINE u == s \cup {<<f, Wants[p]>>}
  <2>2. u \in SUBSET Tree(Wants[p])
    BY DEF Tree
  <2>3. staging' = [staging EXCEPT ![p] = <<u>>]
    BY <2>1, <1>4
  <2>4. pc' = [pc EXCEPT ![p] = "unpack"] /\ faults' \in 0 .. MaxFaults
    BY <2>1, <1>2 DEF IInv, TypeOK
  <2>5. "unpack" \in Keeping
    BY DEF Keeping
  <2> HIDE DEF u
  <2> QED
    BY <1>2, <1>3, <2>2, <2>3, <2>4, <2>5, OwnKeeps
<1>6. CASE Unpacked(p) /\ Goto(p, "room") /\ UNCHANGED <<staging, faults>>
  <2>1. /\ staging' = [staging EXCEPT ![p] = <<Tree(Wants[p])>>]
        /\ pc' = [pc EXCEPT ![p] = "room"] /\ faults' \in 0 .. MaxFaults
    BY <1>6 DEF Unpacked, Goto, IInv, TypeOK
  <2>2. "room" \in Keeping /\ Tree(Wants[p]) \in SUBSET Tree(Wants[p])
    BY DEF Keeping
  <2> QED
    BY <1>2, <1>3, <2>1, <2>2, OwnKeeps
<1>7. CASE Fault /\ Goto(p, "failed") /\ Unstage(p)
  <2>1. /\ staging' = [staging EXCEPT ![p] = << >>] /\ pc' = [pc EXCEPT ![p] = "failed"]
        /\ faults' \in 0 .. MaxFaults
    BY <1>7, FetchAssumption DEF Unstage, Goto, Fault, IInv, TypeOK
  <2>2. /\ "failed" \in Places \ Keeping /\ "failed" \notin {"ok", "git", "clone", "inGit", "inClone"}
        /\ got' \in [Procs -> SUBSET (Files \X Revs)]
    BY <1>2 DEF Places, Keeping, IInv, TypeOK
  <2> QED
    BY <1>2, <1>3, <2>1, <2>2, MoveKeeps
<1> QED
  BY <1>5, <1>6, <1>7 DEF Unpack

\* An empty directory makes room; a populated one stays, and the run removes its own.
LEMMA MakeRoomIInv ==
    ASSUME IInv, NEW p \in Procs, MakeRoom(p)
    PROVE IInv'
<1>1. pc[p] = "room" /\ UNCHANGED <<checkout, hosted, files, got, faults>>
  BY DEF MakeRoom
<1>2. staging[p] = <<Tree(Wants[p])>>
  BY <1>1 DEF IInv, Staged, Unpacked
<1>3. faults' \in 0 .. MaxFaults /\ got' \in [Procs -> SUBSET (Files \X Revs)]
  BY <1>1 DEF IInv, TypeOK
<1>4. CASE Populated
  <2>1. /\ pc' = [pc EXCEPT ![p] = "failed"] /\ staging' = [staging EXCEPT ![p] = << >>]
        /\ there' = there
    BY <1>4 DEF MakeRoom, Goto, Unstage
  <2>2. "failed" \in Places \ Keeping /\ "failed" \notin {"ok", "git", "clone", "inGit", "inClone"}
    BY DEF Places, Keeping
  <2>3. there' \in BOOLEAN /\ (~there' => files = {})
    BY <2>1 DEF IInv, TypeOK
  <2> QED
    BY <1>1, <1>3, <2>1, <2>2, <2>3, MoveKeeps
<1>5. CASE ~Populated
  <2>1. files = {}
    BY <1>5 DEF Populated, IInv
  <2>2. /\ pc' = [pc EXCEPT ![p] = "rename"] /\ there' = FALSE
        /\ staging' = [staging EXCEPT ![p] = <<Tree(Wants[p])>>]
    BY <1>2, <1>5 DEF MakeRoom, Goto, IInv, TypeOK
  <2>3. "rename" \in Keeping /\ Tree(Wants[p]) \in SUBSET Tree(Wants[p])
    BY DEF Keeping
  <2> QED
    BY <1>1, <1>3, <2>1, <2>2, <2>3, OwnKeeps
<1> QED
  BY <1>4, <1>5

\* The tree moves in where no directory is, that is, where nobody has read anything.
LEMMA RenameIInv ==
    ASSUME IInv, NEW p \in Procs, Rename(p)
    PROVE IInv'
<1>1. /\ pc[p] = "rename" /\ staging' = [staging EXCEPT ![p] = << >>]
      /\ UNCHANGED <<checkout, hosted, got, faults>>
  BY DEF Rename, Unstage
<1>2. faults' \in 0 .. MaxFaults /\ got' \in [Procs -> SUBSET (Files \X Revs)]
  BY <1>1 DEF IInv, TypeOK
<1>3. CASE Taken
  <2>1. pc' = [pc EXCEPT ![p] = "failed"] /\ UNCHANGED <<there, files>>
    BY <1>3 DEF Rename, Goto
  <2>2. "failed" \in Places \ Keeping /\ "failed" \notin {"ok", "git", "clone", "inGit", "inClone"}
    BY DEF Places, Keeping
  <2>3. there' \in BOOLEAN /\ (~there' => files = {})
    BY <2>1 DEF IInv, TypeOK
  <2> QED
    BY <1>1, <1>2, <2>1, <2>2, <2>3, MoveKeeps
<1>4. CASE ~Taken
  <2>1. files = {} /\ staging[p] = <<Tree(Wants[p])>>
    BY <1>1, <1>4 DEF Taken, IInv, Staged, Unpacked
  <2>2. pc' = [pc EXCEPT ![p] = "read"] /\ there' = TRUE /\ files' = Tree(Wants[p])
    BY <2>1, <1>4 DEF Rename, Goto
  <2>3. Wants[p] \in Revs
    BY FetchAssumption
  <2>4. TypeOK'
    BY <1>1, <1>2, <2>2, <2>3 DEF IInv, TypeOK, Tree, Places
  <2>5. OneRevision' /\ WholeOrNothing'
    BY <2>2, <2>3 DEF OneRevision, WholeOrNothing, Tree
  <2>6. Staged'
    <3> SUFFICES ASSUME NEW q \in Procs
                 PROVE /\ pc'[q] \in Keeping => \E u \in SUBSET Tree(Wants[q]) : staging'[q] = <<u>>
                       /\ pc'[q] \notin Keeping => staging'[q] = << >>
                       /\ pc'[q] \in {"room", "rename"} => staging'[q] = <<Tree(Wants[q])>>
      BY DEF Staged, Unpacked, Tree
    <3>1. CASE q = p
      BY <3>1, <1>1, <2>2 DEF IInv, TypeOK, Keeping
    <3>2. CASE q # p
      <4>1. pc'[q] = pc[q] /\ staging'[q] = staging[q]
        BY <3>2, <1>1, <2>2 DEF IInv, TypeOK
      <4> QED
        BY <4>1 DEF IInv, Staged, Unpacked
    <3> QED
      BY <3>1, <3>2
  <2>7. Read'
    <3>1. \A q \in Procs : pc[q] # "ok"
      BY <2>1 DEF IInv, Read
    <3> QED
      BY <3>1, <2>2 DEF Read, IInv, TypeOK
  <2>8. NoGit'
    BY <1>1, <2>2 DEF IInv, NoGit, TypeOK, Downloads
  <2> QED
    BY <2>2, <2>4, <2>5, <2>6, <2>7, <2>8 DEF IInv
<1> QED
  BY <1>3, <1>4

\* Every step keeps the invariant.
LEMMA StepIInv == IInv /\ [Next]_vars => IInv'
<1> SUFFICES ASSUME IInv, [Next]_vars PROVE IInv'
  OBVIOUS
<1>1. CASE UNCHANGED vars
  BY <1>1 DEF vars, IInv, TypeOK, OneRevision, Staged, Unpacked, Read, NoGit, WholeOrNothing,
              Downloads, Tree
<1>2. ASSUME NEW p \in Procs, Work(p) \/ Crash(p) PROVE IInv'
  BY <1>2, ReadIInv, LookIInv, GitIInv, GitWriteIInv, LeaveIInv, MkdirTempIInv, UnpackIInv,
     MakeRoomIInv, RenameIInv DEF Work
<1> QED
  BY <1>1, <1>2 DEF Next, AllDone
-----------------------------------------------------------------------------
(* The theorems.                                                           *)

\* In every state the directory and those of the runs are as IInv says.
THEOREM Invariant == Spec => []IInv
<1> QED
  BY InitIInv, StepIInv, PTL DEF Spec

\* Files of one revision only; a run that answered holds a parser that is there, and left
\* no directory behind; with downloads alone all of the sources or none
\* (grammarsrc.go:113-133).
THEOREM SourcesAreWhole == Spec => []SourcesWhole
<1>1. IInv => SourcesWhole
  BY DEF IInv, OneRevision, Staged, Read, WholeOrNothing, SourcesWhole, Keeping
<1> QED
  BY <1>1, Invariant, PTL

\* With downloads alone, each step of the runs is one installation of a whole tree where
\* there was nothing, or nobody sees it: the runs implement SourceTree.
THEOREM FetchInstalls == Spec => Installs
<1>1. Init => Promise!Init
  BY DEF Init, Promise!Init
<1>2. IInv /\ IInv' /\ [Next]_vars => [Promise!Install]_(IF Downloads THEN files ELSE {})
  <2> SUFFICES ASSUME IInv, IInv', [Next]_vars, Downloads, files' # files
               PROVE Promise!Install
    BY SettingFixed
  <2>1. PICK p \in Procs : Work(p)
    BY DEF Next, AllDone, vars, Crash, disk
  <2>2. ~GitWrite(p)
    BY DEF IInv, NoGit, GitWrite, Busy
  <2>3. Rename(p) /\ ~Taken
    BY <2>1, <2>2 DEF Work, ReadParser, CheckDir, AskGit, FallBack, GitBegin, GitEnd, GitFail,
                      Request, MkdirTemp, Unpack, MakeRoom, Rename, Again, disk
  <2>4. files = {} /\ staging[p] = <<Tree(Wants[p])>>
    BY <2>3 DEF Rename, Taken, IInv, Staged, Unpacked
  <2>5. files' = Tree(Wants[p]) /\ Wants[p] \in Revs
    BY <2>3, <2>4, FetchAssumption DEF Rename
  <2> QED
    BY <2>4, <2>5, SettingFixed DEF Promise!Install, Promise!Whole, Tree
<1> QED
  BY <1>1, <1>2, Invariant, PTL DEF Spec, Installs, Promise!Spec
=============================================================================
