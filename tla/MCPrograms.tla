----------------------------- MODULE MCPrograms ------------------------------
(* The programs of examples/: those of the suite, and three with a module of  *)
(* their own.  A behaviour is about one of them, the subject.                 *)
EXTENDS ProgramRun

CONSTANTS chA, chB, nul

VARIABLES
  subject,
  \* FlowControl
  fpc, tokens, count, local_count, puts, full, returns, lost,
  \* RegexpTokens
  rpc, round, mine, test_sem, token, storing, token_map, released, done_cnt,
  hw_match_cnt, setups, ready, cmds, text, results, stale,
  \* StringSearch
  needle, haystack, i, j, found

flowVars == <<fpc, tokens, count, local_count, puts, full, returns, lost>>
regexpVars == <<rpc, round, mine, test_sem, token, storing, token_map, released,
                done_cnt, hw_match_cnt, setups, ready, cmds, text, results, stale>>
searchVars == <<needle, haystack, i, j, found>>

\* Seven values through a sink of five places, which returns two or more credits.
Flow == INSTANCE FlowControl WITH
  Capacity <- 5, Threshold <- 2, Goal <- 7, pc <- fpc, inds <- returns

\* Four searches on two engines.
Regexp == INSTANCE RegexpTokens WITH
  DegPar <- 2, NumTests <- 4, pc <- rpc, i <- round, sem <- test_sem, inds <- results

\* All needles of up to four characters in all texts of up to six.
Search == INSTANCE StringSearch WITH
  Char <- {chA, chB}, NUL <- nul, MaxM <- 4, MaxN <- 6, x <- needle, t <- haystack

MM == INSTANCE MemoryPrograms
S == INSTANCE StringPrograms
PP == INSTANCE PortalPrograms

MCSuite ==
  "memcpy" :> MM!memcpy @@ "memread" :> MM!memread @@ "memread128" :> MM!memread128
    @@ "memread2" :> MM!memread2 @@ "memwrite" :> MM!memwrite(Careful)
    @@ "memrw" :> MM!memrw @@ "memlatency" :> MM!memlatency @@ "perf" :> MM!perf
    @@ "bluescope" :> MM!bluescope
    @@ "strstr" :> S!strstr @@ "nandsim" :> S!nandsim @@ "algo1" :> S!algo1
    @@ "splice" :> S!splice @@ "maxcommonsubseq" :> S!maxcommonsubseq
    @@ "smithwaterman" :> S!smithwaterman
    @@ "echo" :> PP!echo @@ "printf" :> PP!printf @@ "xsim_echo" :> PP!xsim_echo
    @@ "echosoft" :> PP!echosoft @@ "echomux" :> PP!echomux
    @@ "echoring" :> PP!echoring @@ "simple" :> PP!simple @@ "boundary" :> PP!boundary
    @@ "noc" :> PP!noc @@ "noc2d" :> PP!noc2d @@ "serialconfig" :> PP!serialconfig
    @@ "yuv" :> PP!yuv @@ "channelselect" :> PP!channelselect @@ "fmcomms1" :> PP!fmcomms1
    @@ "portalperf" :> PP!portalperf @@ "fib" :> PP!fib @@ "fp" :> PP!fp
    @@ "bscan1" :> PP!bscan(1) @@ "bscan2" :> PP!bscan(2) @@ "bscan3" :> PP!bscan(3)
    @@ "pipe_mul" :> PP!pipe_mul @@ "pipe_mul2" :> PP!pipe_mul2

MCName == DOMAIN MCSuite

\* What a part that is not the subject starts with does not matter: one value of each.
MCInit ==
  /\ subject \in {"suite", "flow", "regexp", "search"}
  /\ Init /\ Flow!Init /\ Regexp!Init /\ Search!Init
  /\ subject # "suite" => prog = "echo"
  /\ subject # "regexp" => token = 0
  /\ subject # "search" => needle = <<chA>> /\ haystack = <<>>

MCNext ==
  /\ UNCHANGED subject
  /\ \/ subject = "suite" /\ Next /\ UNCHANGED <<flowVars, regexpVars, searchVars>>
     \/ subject = "flow" /\ Flow!Next /\ UNCHANGED <<vars, regexpVars, searchVars>>
     \/ subject = "regexp" /\ Regexp!Next /\ UNCHANGED <<vars, flowVars, searchVars>>
     \/ subject = "search" /\ Search!Next /\ UNCHANGED <<vars, flowVars, regexpVars>>

Of(s, A) == subject = s /\ A

\* The fairness of the four specifications, each for its own behaviours.
MCSpec ==
  /\ MCInit /\ [][MCNext]_<<subject, vars, flowVars, regexpVars, searchVars>>
  /\ WF_vars(Of("suite", Next))
  /\ WF_flowVars(Of("flow", Flow!Main)) /\ WF_flowVars(Of("flow", Flow!returnTokens))
  /\ WF_flowVars(Of("flow", Flow!sink_put)) /\ WF_flowVars(Of("flow", Flow!sink_consume))
  /\ WF_regexpVars(Of("regexp", Regexp!Next))
  /\ WF_searchVars(Of("search", Search!Next))

\* The properties of ProgramRun, FlowControl, RegexpTokens and StringSearch, of which
\* those that say something must happen are about the subject only.

\* A thing has one user at a time: a buffer either the program or the hardware, also
\* when the program exits, and a portal one thread that sends.
ExclusiveUse == BuffersQuiet /\ QuietExit /\ OneSender

CreditsKept == Flow!CreditsKept

\* The engines search texts that are there, and main counts every match of every one.
TextsRight == Regexp!TextKept /\ Regexp!AllCounted

\* The tables of mp.h agree, what it reports occurs, and a needle that does not repeat
\* its first character is found everywhere (compute_borders, compute_MP_next, MP).
SearchRight == Search!TablesAgree /\ Search!ReportsOccur /\ Search!PlainNeedleFound

\* Every program comes to its end, that of flowcontrol unless a signal is lost and that
\* of regexp unless a token is read before it is stored.
ProgramsEnd ==
  /\ []<>(subject = "suite" => Ended)
  /\ []<>(subject = "flow" => Flow!Sent)
  /\ []<>(subject = "regexp" => Regexp!Over)
  /\ Search!SearchEnds
=============================================================================
