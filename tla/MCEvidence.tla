----------------------------- MODULE MCEvidence -----------------------------
(***************************************************************************)
(* Small instances of what the program knows of a match before it is played *)
(* and of what it replays afterwards: EvidenceFetch, EvidenceArchive,        *)
(* MatchEvidence and Backtest.  They share no variable: `program` says which *)
(* one a behaviour is about, and the others stay in their initial states.   *)
(***************************************************************************)
EXTENDS EvidenceFetch, EvidenceArchive, MatchEvidence, Backtest, TLC

CONSTANTS v1, v2,                     \* what a page serves
          page1, page2, page3, page4, page5,  \* contents the canary can meet
          injuries, sheet1, sheet2, renamed, garbled,
          g1, g2, g3, g4             \* matches of a league

VARIABLE program

evidenceRunVars == <<fetchVars, archiveVars, evidenceVars, backtestVars, program>>

\* Two bookmakers that agree, or one half as high again as the other.
FlatBoards == {[c \in Codes |-> 20], [c \in Codes |-> 30]}

\* The player goes by one name in two sheets, and by another in a third.
NamesInSheets ==
  [b \in Endpoints \X Sheets |->
     CASE b[2] \in {sheet1, sheet2} -> "name" [] b[2] = renamed -> "other"
       [] OTHER -> Nobody]

PagesThatClash == {<<page1, page3>>}

LeagueSides ==
  [g \in Fixtures |->
     CASE g \in {g1, g3} -> [home |-> "A", away |-> "B"]
       [] g = g2         -> [home |-> "B", away |-> "A"]
       [] OTHER          -> [home |-> "C", away |-> "D"]]

Symmetric ==
  Permutations(Sessions) \cup Permutations(Books) \cup Permutations(Announcements)

\* One round of matches after the other, not yet played.
OneByOne ==
  /\ kickoff = [g \in Fixtures |-> CASE g = g1 -> 0 [] g = g2 -> 1 [] OTHER -> 2]
  /\ score = [g \in Fixtures |-> NoScore]

AllInit ==
  /\ program \in {"fetch", "archive", "evidence", "backtest"}
  /\ FetchInit /\ ArchiveInit /\ EvidenceInit /\ BacktestInit
  /\ program # "evidence" => published = {}
  /\ program # "backtest" => OneByOne

AllNext ==
  \/ /\ program = "fetch"
     /\ FetchNext
     /\ UNCHANGED <<archiveVars, evidenceVars, backtestVars, program>>
  \/ /\ program = "archive"
     /\ ArchiveNext
     /\ UNCHANGED <<fetchVars, evidenceVars, backtestVars, program>>
  \/ /\ program = "evidence"
     /\ EvidenceNext
     /\ UNCHANGED <<fetchVars, archiveVars, backtestVars, program>>
  \/ /\ program = "backtest"
     /\ BacktestNext
     /\ UNCHANGED <<fetchVars, archiveVars, evidenceVars, program>>

AllSpec == AllInit /\ [][AllNext]_evidenceRunVars

\* The type invariants of the four modules, each where its variables change,
\* and the keys of the rows of MatchEvidence.
AllTypeOK ==
  /\ program = "fetch" => FetchTypeOK
  /\ program = "archive" => ArchiveTypeOK
  /\ program = "evidence" => EvidenceTypeOK /\ RowsHaveKeys
  /\ program = "backtest" => BacktestTypeOK
=============================================================================
