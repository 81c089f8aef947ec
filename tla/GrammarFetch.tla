----------------------------- MODULE GrammarFetch -----------------------------
(***************************************************************************)
(* Several runs of ts-translate or ts-fetch after the sources of one      *)
(* grammar (internal/grammarsrc), in one directory: the grammar packages   *)
(* that share a repository, or a build begun again.  Each asks for a      *)
(* revision and takes the steps of Source, Fetch and fetchURL one system  *)
(* call at a time; any may fail or be killed.  git and the server are      *)
(* external: a git command fills the directory file by file, refuses one   *)
(* that has something in it, and may stop half way; of two at once the     *)
(* second fails on the lock.                                               *)
(***************************************************************************)
EXTENDS Integers, FiniteSets

CONSTANTS
    Procs, Files, Revs,
    Parser,      \* the file ts-translate wants
    Wants,       \* the revision each asks for
    MaxFaults

ASSUME FetchAssumption ==
    /\ Procs # {}
    /\ Parser \in Files
    /\ Wants \in [Procs -> Revs]
    /\ MaxFaults \in Nat

VARIABLES
    checkout,    \* whether the directory is in a git work tree
    hosted,      \* those whose repository codeload serves; the others clone
    there,       \* whether the directory exists
    files,       \* what it holds: pairs of a file and its revision
    pc,
    staging,     \* each download's own directory: <<>> for none, or <<files>>
    got,         \* what Source read, as a set of at most one pair
    faults

vars == <<checkout, hosted, there, files, pc, staging, got, faults>>

Tree(r) == {<<f, r>> : f \in Files}
Parsers == {<<Parser, r>> : r \in Revs}
JustThere == there     \* a plausible mistake: an empty directory passes for the sources
Populated == there /\ files # {}

Places == {"start", "check", "where", "git", "inGit", "fallback", "clone", "inClone", "get",
           "stage", "unpack", "room", "rename", "read", "ok", "failed"}
Busy == {"inGit", "inClone"}

TypeOK ==
    /\ checkout \in BOOLEAN /\ there \in BOOLEAN /\ hosted \subseteq Procs
    /\ files \subseteq Files \X Revs
    /\ pc \in [Procs -> Places]
    /\ staging \in [Procs -> {<< >>} \cup {<<s>> : s \in SUBSET (Files \X Revs)}]
    /\ got \in [Procs -> SUBSET (Files \X Revs)]
    /\ faults \in 0 .. MaxFaults

(* A submodule not initialized is an empty directory, or none. *)
Init ==
    /\ checkout \in BOOLEAN /\ there \in BOOLEAN /\ hosted \in SUBSET Procs
    /\ files = {}
    /\ pc = [p \in Procs |-> "start"]
    /\ staging = [p \in Procs |-> << >>]
    /\ got = [p \in Procs |-> {}]
    /\ faults = 0

disk == <<checkout, hosted, there, files>>
Goto(p, place) == pc' = [pc EXCEPT ![p] = place]
Jump(p, from, to) == pc[p] = from /\ Goto(p, to)
Unstage(p) == staging' = [staging EXCEPT ![p] = << >>]

(* Source: os.ReadFile of the parser, before the fetch and after it. *)
ReadParser(p) ==
    /\ pc[p] \in {"start", "read"}
    /\ got' = [got EXCEPT ![p] = files \cap Parsers]
    /\ Goto(p, IF files \cap Parsers # {} THEN "ok" ELSE IF pc[p] = "start" THEN "check" ELSE "failed")
    /\ UNCHANGED <<disk, staging, faults>>

(* Fetch and fetchURL: a directory with anything in it is the sources. *)
CheckDir(p) ==
    /\ Jump(p, "check", IF Populated THEN "read" ELSE "where")
    /\ UNCHANGED <<disk, staging, got, faults>>

(* inGitWorkTree; then a submodule is git's to fill. *)
AskGit(p) ==
    /\ Jump(p, "where", IF checkout THEN "git" ELSE "fallback")
    /\ UNCHANGED <<disk, staging, got, faults>>

(* RepoFor, and clone's own look at the directory and its MkdirAll. *)
FallBack(p) ==
    /\ Jump(p, "fallback", IF p \in hosted THEN "get" ELSE IF Populated THEN "failed" ELSE "clone")
    /\ there' = (there \/ p \notin hosted)
    /\ UNCHANGED <<checkout, hosted, files, staging, got, faults>>

-----------------------------------------------------------------------------
(* git submodule update and git clone. *)

GitRunning == \E p \in Procs : pc[p] \in Busy
GitBegin(p) ==
    /\ pc[p] \in {"git", "clone"}
    /\ IF GitRunning \/ Populated
       THEN Goto(p, IF pc[p] = "git" THEN "fallback" ELSE "failed") /\ UNCHANGED there
       ELSE Goto(p, IF pc[p] = "git" THEN "inGit" ELSE "inClone") /\ there' = TRUE
    /\ UNCHANGED <<checkout, hosted, files, staging, got, faults>>

(* git finds out, as it writes, that somebody removed the directory or    *)
(* moved a tree in.                                                        *)
Mine(p) == there /\ files \subseteq Tree(Wants[p])
GitWrite(p) ==
    /\ pc[p] \in Busy /\ Mine(p)
    /\ \E f \in Files : <<f, Wants[p]>> \notin files /\ files' = files \cup {<<f, Wants[p]>>}
    /\ UNCHANGED <<checkout, hosted, there, pc, staging, got, faults>>
GitEnd(p) ==
    /\ pc[p] \in Busy /\ files = Tree(Wants[p])
    /\ Goto(p, "read")
    /\ UNCHANGED <<disk, staging, got, faults>>
GitFail(p) ==
    /\ pc[p] \in Busy
    /\ IF Mine(p) THEN faults < MaxFaults /\ faults' = faults + 1 ELSE faults' = faults
    /\ Goto(p, IF pc[p] = "inGit" THEN "fallback" ELSE "failed")
    /\ UNCHANGED <<disk, staging, got>>

-----------------------------------------------------------------------------
(* download: into a directory of its own, which then takes the place.      *)

Fault == faults < MaxFaults /\ faults' = faults + 1
Request(p) ==
    /\ \/ Jump(p, "get", "stage") /\ UNCHANGED faults
       \/ Jump(p, "get", "failed") /\ Fault
    /\ UNCHANGED <<disk, staging, got>>

MkdirTemp(p) ==
    /\ Jump(p, "stage", "unpack")
    /\ staging' = [staging EXCEPT ![p] = <<{}>>]
    /\ UNCHANGED <<disk, got, faults>>

(* An entry of the archive, the end of it, or an error, which removes what *)
(* was unpacked.                                                           *)
UnpackedPart(p) == staging[p] # << >>     \* a plausible mistake: a cut archive passes
Unpacked(p) == staging[p] = <<Tree(Wants[p])>>
Unpack(p) ==
    /\ pc[p] = "unpack"
    /\ \/ /\ \E f \in Files :
                /\ <<f, Wants[p]>> \notin staging[p][1]
                /\ staging' = [staging EXCEPT ![p] = <<@[1] \cup {<<f, Wants[p]>>}>>]
          /\ UNCHANGED <<pc, faults>>
       \/ Unpacked(p) /\ Goto(p, "room") /\ UNCHANGED <<staging, faults>>
       \/ Fault /\ Goto(p, "failed") /\ Unstage(p)
    /\ UNCHANGED <<disk, got>>

(* os.Remove takes an empty directory away, and nothing else. *)
MakeRoom(p) ==
    /\ pc[p] = "room"
    /\ IF Populated THEN Goto(p, "failed") /\ Unstage(p) /\ UNCHANGED there
       ELSE Goto(p, "rename") /\ there' = FALSE /\ UNCHANGED staging
    /\ UNCHANGED <<checkout, hosted, files, got, faults>>

(* os.Rename moves the tree in, and refuses when a directory is there. *)
OneOverTheOther == FALSE     \* a plausible mistake: the rename replaces what is there
Taken == there
Rename(p) ==
    /\ pc[p] = "rename"
    /\ IF Taken THEN Goto(p, "failed") /\ UNCHANGED <<there, files>>
       ELSE Goto(p, "read") /\ there' = TRUE /\ files' = staging[p][1]
    /\ Unstage(p)
    /\ UNCHANGED <<checkout, hosted, got, faults>>

-----------------------------------------------------------------------------
(* A run killed at any step leaves its files as they are; its staging is   *)
(* nobody's.  A run that failed is begun again.                            *)
Crash(p) ==
    /\ pc[p] \notin {"ok", "failed"} /\ Fault
    /\ Goto(p, "start") /\ Unstage(p)
    /\ UNCHANGED <<disk, got>>
Again(p) ==
    /\ Jump(p, "failed", "start")
    /\ UNCHANGED <<disk, staging, got, faults>>

Work(p) ==
    \/ ReadParser(p) \/ CheckDir(p) \/ AskGit(p) \/ FallBack(p)
    \/ GitBegin(p) \/ GitWrite(p) \/ GitEnd(p) \/ GitFail(p)
    \/ Request(p) \/ MkdirTemp(p) \/ Unpack(p) \/ MakeRoom(p) \/ Rename(p)
    \/ Again(p)

AllDone == (\A p \in Procs : pc[p] = "ok") /\ UNCHANGED vars
Next == (\E p \in Procs : Work(p) \/ Crash(p)) \/ AllDone

(* The system runs every process, a caller repeats one that failed, and a *)
(* fault is never owed.                                                    *)
Spec == Init /\ [][Next]_vars
FairSpec == Spec /\ \A p \in Procs : WF_vars(Work(p))

-----------------------------------------------------------------------------
(* Whatever runs at once and wherever one is killed, the directory never   *)
(* holds files of two revisions; what Source answers is the parser of the  *)
(* revision that is there; a run that answered left no directory of its    *)
(* own behind; and where nothing but downloads fills it, the directory is  *)
(* empty or whole (grammarsrc.go:128 and download_test.go:153).            *)
Downloads == ~checkout /\ hosted = Procs
OneRevision == \E r \in Revs : files \subseteq Tree(r)
SourcesWhole ==
    /\ OneRevision
    /\ \A p \in Procs :
          /\ pc[p] = "ok" => got[p] # {} /\ got[p] \subseteq files
          /\ pc[p] \in {"ok", "failed", "read"} => staging[p] = << >>
    /\ Downloads => files = {} \/ \E r \in Revs : files = Tree(r)

(* Where downloads alone fill it, whoever looks at the directory sees it   *)
(* filled in one step and never changed again: the detailed steps          *)
(* implement SourceTree (grammarsrc.go:113-133, "anything else there is    *)
(* not ours to remove").                                                   *)
Promise == INSTANCE SourceTree WITH tree <- IF Downloads THEN files ELSE {}
Installs == Promise!Spec

(* Where downloads alone fill it, every run ends with the parser read,    *)
(* however they raced and whichever was killed: nothing a killed run       *)
(* leaves stops the next, and a run that lost a race finds the sources.    *)
Arrives == Downloads => <>[](\A p \in Procs : pc[p] = "ok")

-----------------------------------------------------------------------------
(* The inductive invariant behind SourcesWhole and Installs: a run keeps a *)
(* directory of its own from MkdirTemp to Rename alone, whole from the end *)
(* of the archive on; one that read the parser still finds it; and git is  *)
(* never at work where only downloads are.                                 *)
Keeping == {"unpack", "room", "rename"}
Staged == \A p \in Procs :
    /\ pc[p] \in Keeping => \E s \in SUBSET Tree(Wants[p]) : staging[p] = <<s>>
    /\ pc[p] \notin Keeping => staging[p] = << >>
    /\ pc[p] \in {"room", "rename"} => Unpacked(p)
Read == \A p \in Procs : pc[p] = "ok" => got[p] # {} /\ got[p] \subseteq files
NoGit == Downloads => \A p \in Procs : pc[p] \notin {"git", "clone", "inGit", "inClone"}
WholeOrNothing == Downloads => files = {} \/ \E r \in Revs : files = Tree(r)
IInv ==
    /\ TypeOK /\ OneRevision /\ Staged /\ Read /\ NoGit /\ WholeOrNothing
    /\ ~there => files = {}

=============================================================================
