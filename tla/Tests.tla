-------------------------------- MODULE Tests --------------------------------
(***************************************************************************)
(* The test list and the loops that run it: core/registry.c gates every    *)
(* row by what the board has and counts the verdicts, app/main.c runs all  *)
(* rows, one row, or all rows again when a slave turns up, dlg_burnin.c    *)
(* runs them round and round until it is told to stop, and Set Board       *)
(* changes the board under all of it.  A test is one step that begins and  *)
(* one that ends, with any verdict; between the two the interface may draw *)
(* what is there.                                                          *)
(***************************************************************************)
EXTENDS Integers, FiniteSets

CONSTANTS
  Len,        \* rows of the list
  Needs,      \* row -> [all, any], the capabilities it asks for
  LinkRows,   \* the rows of tests_link.c
  Contact,    \* the one of them that finds out whether a slave answers
  Boards,     \* descriptors
  Unknown,    \* the fallback descriptor
  Choosable,  \* those Set Board lists
  Claimed,    \* board -> capabilities its descriptor claims
  Wired,      \* boards that have link pins
  Probed,     \* capabilities the probes have shown
  MaxCycles   \* bound: the operator stops a burn-in within so many cycles

TestRows == 1..Len
Link == "link"

Found(b) == Probed \ (IF b \in Wired THEN {} ELSE {Link})
Has(b) == Claimed[b] \cup Found(b)

Lacks(b, i) ==
  \/ ~(Needs[i].all \subseteq Has(b))
  \/ Needs[i].any # {} /\ Needs[i].any \cap Has(b) = {}

ASSUME TestsAssumption ==
  /\ Len \in Nat \ {0} /\ MaxCycles \in Nat \ {0}
  /\ Unknown \in Boards /\ Choosable \subseteq Boards \ {Unknown}
  /\ Contact \in LinkRows /\ LinkRows \subseteq TestRows
  /\ \A b \in Boards : \E i \in TestRows : ~Lacks(b, i)

Verdicts == {"pass", "fail", "norun"}
States == Verdicts \cup {"na", "pending", "running"}

VARIABLES
  board,      \* g_detect.board
  rows,       \* row -> ui_test_state_t
  tally,      \* the totals shown
  doing,      \* idle, or which loop is at which row
  on,         \* is that row's test running?
  selected,   \* g_desk.selected, 0 for none
  inited,     \* s_inited of tests_link.c
  contacted,  \* s_result.contacted
  burn,       \* burn_t
  asked,      \* an Esc waits to be read by the burn-in
  got, ran    \* history: the board a row's test last ran on, its runs in this burn-in

linkVars == <<inited, contacted>>
testsVars == <<board, rows, tally, doing, on, selected, linkVars, burn, asked, got, ran>>

Idle == doing.loop = "idle"
In(loop, i) == [loop |-> loop, row |-> i]

---------------------------------------------------------------------------
(* registry.c                                                              *)

Prepared(b) ==
  [i \in TestRows |-> IF b = Unknown THEN "norun"
                  ELSE IF Lacks(b, i) THEN "na" ELSE "pending"]

Tally(r) ==
  LET Number(S) == Cardinality({i \in TestRows : r[i] \in S})
  IN [passed |-> Number({"pass"}), failed |-> Number({"fail"}), na |-> Number({"na"}),
      norun |-> Number({"norun"}), pending |-> Number({"pending", "running"})]

Prepare(b) == rows' = Prepared(b) /\ tally' = Tally(Prepared(b))

(* registry_run_one up to the call of the test, and from its return.       *)
Begin(i) ==
  /\ rows[i] # "na"
  /\ rows' = [rows EXCEPT ![i] = "running"]
  /\ on' = TRUE
  /\ got' = [got EXCEPT ![i] = board]

(* A row of the link that was never brought up says so.                    *)
Verdict(i) == IF i \in LinkRows /\ ~inited THEN {"norun"} ELSE Verdicts

Return(i, v) ==
  /\ rows' = [rows EXCEPT ![i] = v]
  /\ tally' = Tally([rows EXCEPT ![i] = v])
  /\ on' = FALSE
  /\ contacted' = IF i = Contact /\ inited THEN v # "norun" ELSE contacted
  /\ UNCHANGED <<board, inited, got>>

---------------------------------------------------------------------------
(* run_all and Run Selected                                                *)

RunAll ==
  /\ Prepare(board)
  /\ doing' = IF board = Unknown THEN In("idle", 0) ELSE In("all", 1)
  /\ UNCHANGED <<board, on, selected, burn, asked, got, ran>>

RunAllCommand == Idle /\ RunAll /\ UNCHANGED linkVars

(* Both loops step over what the board does not have.                      *)
Skip ==
  /\ doing.loop \in {"all", "burn"} /\ ~on /\ doing.row <= Len
  /\ rows[doing.row] = "na"
  /\ doing' = In(doing.loop, doing.row + 1)
  /\ UNCHANGED <<board, rows, tally, on, selected, linkVars, burn, asked, got, ran>>

AllRow ==
  /\ doing.loop = "all" /\ ~on /\ doing.row <= Len
  /\ Begin(doing.row)
  /\ selected' = doing.row
  /\ UNCHANGED <<board, tally, doing, linkVars, burn, asked, ran>>

AllRowEnds ==
  /\ doing.loop = "all" /\ on
  /\ \E v \in Verdict(doing.row) : Return(doing.row, v)
  /\ doing' = In("all", doing.row + 1)
  /\ UNCHANGED <<selected, burn, asked, ran>>

(* Seeded fault: the last row is left out.                                 *)
AllButOneEnds ==
  /\ doing.loop = "all" /\ ~on /\ doing.row >= Len
  /\ doing' = In("idle", 0)
  /\ selected' = 1
  /\ UNCHANGED <<board, rows, tally, on, linkVars, burn, asked, got, ran>>

AllEnds ==
  /\ doing.loop = "all" /\ doing.row > Len
  /\ doing' = In("idle", 0)
  /\ selected' = 1
  /\ UNCHANGED <<board, rows, tally, on, linkVars, burn, asked, got, ran>>

(* Nothing here asks which board it is.                                    *)
RunSelected ==
  /\ Idle /\ selected > 0
  /\ Begin(selected)
  /\ doing' = In("selected", selected)
  /\ UNCHANGED <<board, tally, selected, linkVars, burn, asked, ran>>

SelectedEnds ==
  /\ doing.loop = "selected"
  /\ \E v \in Verdict(doing.row) : Return(doing.row, v)
  /\ doing' = In("idle", 0)
  /\ UNCHANGED <<selected, burn, asked, ran>>

Select ==
  /\ Idle
  /\ selected' \in 0..Len
  /\ UNCHANGED <<board, rows, tally, doing, on, linkVars, burn, asked, got, ran>>

---------------------------------------------------------------------------
(* Set Board, and the poll for a slave that was not there                  *)

LinkInit(b) == inited' = (inited \/ Link \in Claimed[b])

(* Seeded fault: the list is not rebuilt.                                  *)
SetBoardOnly(b) ==
  /\ Idle
  /\ board' = b
  /\ LinkInit(b)
  /\ UNCHANGED <<rows, tally, doing, on, selected, contacted, burn, asked, got, ran>>

SetBoard(b) ==
  /\ Idle
  /\ board' = b
  /\ LinkInit(b)
  /\ Prepare(b)
  /\ UNCHANGED <<doing, on, selected, contacted, burn, asked, got, ran>>

(* tests_link_poll probes only while no slave has answered; when one does  *)
(* everything runs again.                                                  *)
SlaveAppears == Idle /\ inited /\ ~contacted /\ RunAll /\ UNCHANGED linkVars

---------------------------------------------------------------------------
(* dlg_burnin                                                              *)

NoRun == [i \in TestRows |-> 0]
NoBurn == [cycles |-> 0, fails |-> NoRun, norun |-> NoRun, total |-> 0]

BurnIn ==
  /\ Idle /\ board # Unknown
  /\ burn' = NoBurn /\ asked' = FALSE /\ ran' = NoRun
  /\ Prepare(board)
  /\ doing' = In("burn", 1)
  /\ UNCHANGED <<board, on, selected, linkVars, got>>

(* Seeded fault: input that waits is thrown away before each test.         *)
BurnRowDrains ==
  /\ doing.loop = "burn" /\ ~on /\ doing.row <= Len
  /\ burn.cycles < MaxCycles
  /\ asked' = FALSE
  /\ Begin(doing.row)
  /\ UNCHANGED <<board, tally, doing, selected, linkVars, burn, ran>>

(* Input is read between two tests; a cycle that was stopped does not count. *)
BurnRow ==
  /\ doing.loop = "burn" /\ ~on /\ doing.row <= Len
  /\ ~asked /\ burn.cycles < MaxCycles
  /\ Begin(doing.row)
  /\ UNCHANGED <<board, tally, doing, selected, linkVars, burn, asked, ran>>

BurnStops ==
  /\ doing.loop = "burn" /\ ~on /\ doing.row <= Len
  /\ rows[doing.row] # "na"
  /\ asked /\ asked' = FALSE
  /\ doing' = In("idle", 0)
  /\ burn' = NoBurn /\ ran' = NoRun
  /\ UNCHANGED <<board, rows, tally, on, selected, linkVars, got>>

Score(b, i, v) ==
  [b EXCEPT !.fails[i] = @ + (IF v = "fail" THEN 1 ELSE 0),
            !.total = @ + (IF v = "fail" THEN 1 ELSE 0),
            !.norun[i] = @ + (IF v = "norun" THEN 1 ELSE 0)]

BurnRowEnds ==
  /\ doing.loop = "burn" /\ on
  /\ \E v \in Verdict(doing.row) :
       /\ Return(doing.row, v)
       /\ burn' = Score(burn, doing.row, v)
  /\ ran' = [ran EXCEPT ![doing.row] = @ + 1]
  /\ doing' = In("burn", doing.row + 1)
  /\ UNCHANGED <<selected, asked>>

BurnCycleEnds ==
  /\ doing.loop = "burn" /\ doing.row > Len
  /\ burn' = [burn EXCEPT !.cycles = @ + 1]
  /\ Prepare(board)
  /\ doing' = In("burn", 1)
  /\ UNCHANGED <<board, on, selected, linkVars, asked, got, ran>>

Esc ==
  /\ doing.loop = "burn" /\ ~asked
  /\ asked' = TRUE
  /\ UNCHANGED <<board, rows, tally, doing, on, selected, linkVars, burn, got, ran>>

---------------------------------------------------------------------------
(* main() at its first run_all.                                            *)
TestsInit ==
  /\ board \in Boards
  /\ rows = Prepared(board) /\ tally = Tally(rows)
  /\ doing = IF board = Unknown THEN In("idle", 0) ELSE In("all", 1)
  /\ on = FALSE /\ selected = 0
  /\ inited = (Link \in Claimed[board]) /\ contacted = FALSE
  /\ burn = NoBurn /\ asked = FALSE
  /\ got = [i \in TestRows |-> Unknown] /\ ran = NoRun

Work ==
  \/ Skip \/ AllRow \/ AllRowEnds \/ AllEnds
  \/ SelectedEnds
  \/ BurnRow \/ BurnStops \/ BurnRowEnds \/ BurnCycleEnds

User ==
  \/ RunAllCommand \/ RunSelected \/ Select \/ BurnIn \/ Esc
  \/ \E b \in Choosable : SetBoard(b)

TestsNext == Work \/ User \/ SlaveAppears

TestsSpec == TestsInit /\ [][TestsNext]_testsVars
FairSpec == TestsSpec /\ WF_testsVars(Work)

---------------------------------------------------------------------------
(* Types, and counters within their bounds.                                *)
TestsTypeOK ==
  /\ board \in Boards
  /\ rows \in [TestRows -> States]
  /\ tally \in [passed : 0..Len, failed : 0..Len, na : 0..Len, norun : 0..Len, pending : 0..Len]
  /\ doing \in [loop : {"idle", "all", "selected", "burn"}, row : 0..Len + 1]
  /\ on \in BOOLEAN /\ selected \in 0..Len
  /\ inited \in BOOLEAN /\ contacted \in BOOLEAN /\ asked \in BOOLEAN
  /\ burn \in [cycles : 0..MaxCycles, fails : [TestRows -> Nat], norun : [TestRows -> Nat], total : Nat]
  /\ got \in [TestRows -> Boards] /\ ran \in [TestRows -> Nat]

(* The totals at the bottom of the list are those of the rows above, at    *)
(* every moment something may be drawn, a run, a burn-in and a change of   *)
(* board included.  Only while one finished row is run again do they still *)
(* count its old verdict, since registry_tally waits for the new one.      *)
(* The burn-in counts every row the board has once per full cycle, and     *)
(* once more if this cycle has come past it; bad outcomes are no more than *)
(* runs, and the headline is the number of failures there were.            *)
Failures(f) == UNION {{i} \X (1..f[i]) : i \in TestRows}
CountsAreTrue ==
  /\ doing.loop # "selected" => tally = Tally(rows)
  /\ doing.loop = "burn" =>
       /\ burn.total = Cardinality(Failures(burn.fails))
       /\ \A i \in TestRows :
            /\ rows[i] # "na" => ran[i] = burn.cycles + (IF i < doing.row THEN 1 ELSE 0)
            /\ burn.fails[i] + burn.norun[i] <= ran[i]

(* A verdict on the screen, or in the report, was had on the board that is *)
(* named beside it, and only from hardware that board has: no Set Board,   *)
(* re-run or burn-in carries one over.                                     *)
VerdictsAreEarned ==
  \A i \in TestRows : rows[i] \in {"pass", "fail", "running"} =>
    got[i] = board /\ (board = Unknown \/ ~Lacks(board, i))

(* A run of everything, the one a slave's appearance starts included, ends *)
(* with no row left untried.                                               *)
NothingLeft ==
  [][doing.loop = "all" /\ Idle' =>
       tally'.pending = 0 /\ \A i \in TestRows : rows'[i] \notin {"pending", "running"}]_testsVars

(* "It stops when asked" (dlg_burnin.c): an Esc ends the burn-in, though   *)
(* it is only looked for between two tests.                                *)
StopIsHonoured == asked ~> Idle

(* What the screen says of the tests is so: both of the above.             *)
RowsAreHonest == CountsAreTrue /\ VerdictsAreEarned

(* registry.c: "An unidentified board runs nothing."                       *)
UnidentifiedRunsNothing == board = Unknown => ~on
=============================================================================
