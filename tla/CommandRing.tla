----------------------------- MODULE CommandRing -----------------------------
(* The command and status rings of examples/ring: a program writes commands   *)
(* to a ring in memory, the design reads them, runs them in two engines and   *)
(* writes a status per command to a second ring, which the program polls.     *)
(* The behaviours start when both rings are set up and the design is enabled. *)
(*                                                                            *)
(* A ring's offsets count slots of 64 bytes.  A command is its number and the *)
(* tag in its last word; the word with the opcode is read before the others.  *)
EXTENDS Integers, Sequences, FiniteSets

CONSTANTS
  Slots,        \* slots of a ring, a multiple of 4
  Completions,  \* elements of completion[], from 1
  Pairs,        \* pass 1: so many copies and echoes, each waited for
  Copies,       \* pass 2: so many copies without waiting
  Echoes,       \* fast_echo_test: so many echoes
  StartEvery,   \* of which every so manieth is followed by a STARTRING
  Tokens,       \* of the fetch completion buffer
  EngineDepth   \* commands a FIFO of an engine holds

Tag == 1 .. Completions
Quarter == Slots \div 4
Total == 2 * Pairs + Copies + Echoes

VARIABLES
  pc, n,              \* where main is, and the number of commands it has sent
  cmd_ring,           \* first, last, cached_space
  getresult_flag,
  status_last,        \* status_ring.last
  completionfreelist, in_use,
  arg,                \* the command a completion is for
  finished,           \* commands whose finish function was called
  cmdBuffer, statusBuffer,
  requests,           \* calls of the request portal on their way, per method
  results,            \* getResult indications on their way
  cmdRing, statusRing,  \* the design's registers
  reads,              \* slots being read, in order
  tokens,             \* of the fetch completion buffer: reserved, and done
  cmd,                \* the word cmdDispatch has, and what the rest turned out to be
  echoEngine,         \* f_echo
  copyEngine,         \* f_in, copyTag and f_out
  writes              \* status writes on their way to memory

swVars == <<pc, n, cmd_ring, getresult_flag, status_last, completionfreelist, in_use, arg, finished>>
hwVars == <<cmdRing, statusRing, reads, tokens, cmd, echoEngine, copyEngine, writes>>
vars == <<swVars, cmdBuffer, statusBuffer, requests, results, hwVars>>

None == [id |-> 0, tag |-> 0]

\* What main sends as its k-th command: hw_copy and hw_echo in turn, hw_copy_nb,
\* and the echoes of fast_echo_test.
Opcode(k) == IF k <= 2 * Pairs THEN IF k % 2 = 1 THEN "copy" ELSE "echo"
             ELSE IF k <= 2 * Pairs + Copies THEN "copy" ELSE "echo"
Fast(k) == k > 2 * Pairs + Copies

\* Mutant: half of the completions are on the list.
completion_list_init_Half == [t \in 1 .. Completions \div 2 |-> t]

completion_list_init == [t \in Tag |-> t]

Init ==
  /\ pc = "space" /\ n = 0
  /\ cmd_ring = [first |-> 0, last |-> 0, cached_space |-> Slots - 1]
  /\ getresult_flag = 0
  /\ status_last = 0
  /\ completionfreelist = completion_list_init
  /\ in_use = {} /\ arg = [t \in Tag |-> 0] /\ finished = {}
  /\ cmdBuffer = [s \in 0 .. Slots - 1 |-> None]
  /\ statusBuffer = [s \in 0 .. Slots - 1 |-> None]
  /\ requests = [setCmdFirst |-> <<>>, setStatusLast |-> <<>>, get |-> <<>>]
  /\ results = <<>>
  /\ cmdRing = [first |-> 0, lastfetch |-> 0, lastack |-> 0]
  /\ statusRing = [first |-> 0, lastack |-> 0]
  /\ reads = <<>>
  /\ tokens = [reserved |-> 0, done |-> 0]
  /\ cmd = None
  /\ echoEngine = <<>>
  /\ copyEngine = [f_in |-> <<>>, busy |-> None, f_out |-> <<>>]
  /\ writes = <<>>

Next1(s) == (s + 1) % Slots

-----------------------------------------------------------------------------
\* The program.

\* The design is told every quarter of the ring.
ring_pop ==
  /\ status_last' = Next1(status_last)
  /\ requests' = IF status_last' % Quarter = 0
                 THEN [requests EXCEPT !.setStatusLast = Append(@, status_last')]
                 ELSE requests

\* A completion that is not in use fails the assertion.
Ring_Handle_Completion(event) ==
  /\ in_use' = in_use \ {event.tag}
  /\ completionfreelist' = Append(completionfreelist, event.tag)
  /\ finished' = finished \cup {arg[event.tag]}
  /\ statusBuffer' = [statusBuffer EXCEPT ![status_last] = None]

\* ring_next and what the pollers do with the status it finds.
PollRing ==
  LET event == statusBuffer[status_last] IN
  IF event = None
  THEN UNCHANGED <<status_last, requests, in_use, completionfreelist, finished, statusBuffer>>
  ELSE ring_pop /\ Ring_Handle_Completion(event)

Asserts == statusBuffer[status_last] # None /\ statusBuffer[status_last].tag \notin in_use

\* The answer of the design, if there is one.
getResult ==
  /\ results' = <<>>
  /\ IF results = <<>> THEN UNCHANGED <<cmd_ring, getresult_flag>>
     ELSE /\ cmd_ring' = [cmd_ring EXCEPT !.last = Head(results)]
          /\ getresult_flag' = 1

\* The indications, and one status.
StatusPoll == getResult /\ PollRing

-----------------------------------------------------------------------------
\* ring_send.

\* Mutant: every slot is used.
SpaceLeft_All(r) == 1 + ((Slots + r.last - r.first - 1) % Slots)

SpaceLeft(r) == (Slots + r.last - r.first - 1) % Slots

\* Every quarter of the ring the design is asked how far it is.
space ==
  /\ pc = "space"
  /\ IF cmd_ring.cached_space % Quarter = 0
     THEN /\ getresult_flag' = 0
          /\ requests' = [requests EXCEPT !.get = Append(@, "lastack")]
          /\ pc' = "waitforflag"
     ELSE pc' = "put" /\ UNCHANGED <<getresult_flag, requests>>
  /\ UNCHANGED <<n, cmd_ring, status_last, completionfreelist, in_use, arg, finished>>
  /\ UNCHANGED <<cmdBuffer, statusBuffer, results, hwVars>>

waitforflag ==
  /\ pc = "waitforflag" /\ getresult_flag = 0
  /\ IF Asserts THEN pc' = "assert" /\ UNCHANGED <<swVars, statusBuffer, requests, results>>
     ELSE StatusPoll /\ UNCHANGED <<pc, n, arg>>
  /\ UNCHANGED <<cmdBuffer, hwVars>>

flag_set ==
  /\ pc = "waitforflag" /\ getresult_flag = 1
  /\ cmd_ring' = [cmd_ring EXCEPT !.cached_space = SpaceLeft(cmd_ring)]
  /\ pc' = IF cmd_ring'.cached_space # 0 THEN "put" ELSE "space"
  /\ UNCHANGED <<n, getresult_flag, status_last, completionfreelist, in_use, arg, finished>>
  /\ UNCHANGED <<cmdBuffer, statusBuffer, requests, results, hwVars>>

get_free_completion(t) ==
  /\ completionfreelist' = Tail(completionfreelist)
  /\ in_use' = in_use \cup {t}

\* A completion and memcpy.  hw_copy and hw_echo go on to STARTRING, and so
\* does fast_echo_test for some of its commands.
put ==
  /\ pc = "put"
  /\ IF completionfreelist = <<>>
     THEN pc' = "assert" /\ UNCHANGED <<n, cmd_ring, completionfreelist, in_use, arg, cmdBuffer>>
     ELSE LET t == Head(completionfreelist) IN
          /\ get_free_completion(t)
          /\ arg' = [arg EXCEPT ![t] = n + 1]
          /\ cmdBuffer' = [cmdBuffer EXCEPT ![cmd_ring.first] = [id |-> n + 1, tag |-> t]]
          /\ cmd_ring' = [cmd_ring EXCEPT !.first = Next1(@), !.cached_space = @ - 1]
          /\ n' = n + 1
          /\ pc' = IF ~Fast(n + 1) \/ (n - 2 * Pairs - Copies) % StartEvery = 0
                   THEN "start" ELSE "drain"
  /\ UNCHANGED <<getresult_flag, status_last, finished, statusBuffer, requests, results, hwVars>>

\* The call waits while the portal's FIFO is full.
STARTRING ==
  /\ Len(requests.setCmdFirst) < 2
  /\ requests' = [requests EXCEPT !.setCmdFirst = Append(@, cmd_ring.first)]

start ==
  /\ pc = "start"
  /\ STARTRING
  /\ pc' = IF n <= 2 * Pairs THEN "wait"
           ELSE IF ~Fast(n) THEN IF n < 2 * Pairs + Copies THEN "space" ELSE "wait"
           ELSE "drain"
  /\ UNCHANGED <<n, cmd_ring, getresult_flag, status_last, completionfreelist, in_use, arg, finished>>
  /\ UNCHANGED <<cmdBuffer, statusBuffer, results, hwVars>>

\* StatusPollRingOnly after every echo of fast_echo_test.
drain ==
  /\ pc = "drain"
  /\ IF Asserts THEN pc' = "assert" /\ UNCHANGED <<status_last, completionfreelist, in_use, finished, statusBuffer, requests>>
     ELSE /\ PollRing
          /\ pc' = IF statusBuffer[status_last] # None THEN "drain"
                   ELSE IF n < Total THEN "space" ELSE "last"
  /\ UNCHANGED <<n, cmd_ring, getresult_flag, arg, cmdBuffer, results, hwVars>>

\* Mutant: no STARTRING after the last echo.
last_Unstarted ==
  /\ pc = "last"
  /\ pc' = "wait"
  /\ UNCHANGED <<n, cmd_ring, getresult_flag, status_last, completionfreelist, in_use, arg, finished>>
  /\ UNCHANGED <<cmdBuffer, statusBuffer, requests, results, hwVars>>

last ==
  /\ pc = "last"
  /\ STARTRING
  /\ pc' = "wait"
  /\ UNCHANGED <<n, cmd_ring, getresult_flag, status_last, completionfreelist, in_use, arg, finished>>
  /\ UNCHANGED <<cmdBuffer, statusBuffer, results, hwVars>>

\* Until the flag of the command, or of all of the pass, is set.  After the echoes
\* of fast_echo_test no indication is on its way, and only the ring is polled.
wait ==
  /\ pc = "wait"
  /\ IF finished = 1 .. n
     THEN /\ pc' = IF n < Total THEN "space" ELSE "done"
          /\ UNCHANGED <<cmd_ring, getresult_flag, status_last, completionfreelist, in_use, finished, statusBuffer, requests, results>>
     ELSE IF Asserts
     THEN pc' = "assert" /\ UNCHANGED <<cmd_ring, getresult_flag, status_last, completionfreelist, in_use, finished, statusBuffer, requests, results>>
     ELSE StatusPoll /\ UNCHANGED pc
  /\ UNCHANGED <<n, arg, cmdBuffer, hwVars>>

Program == space \/ waitforflag \/ flag_set \/ put \/ start \/ drain \/ last \/ wait

-----------------------------------------------------------------------------
\* The design.

\* The methods of RingRequest; each has a FIFO of its own.
setCmdFirst ==
  /\ requests.setCmdFirst # <<>>
  /\ cmdRing' = [cmdRing EXCEPT !.first = Head(requests.setCmdFirst)]
  /\ requests' = [requests EXCEPT !.setCmdFirst = Tail(@)]
  /\ UNCHANGED <<swVars, cmdBuffer, statusBuffer, results, statusRing, reads, tokens, cmd, echoEngine, copyEngine, writes>>

setStatusLast ==
  /\ requests.setStatusLast # <<>>
  /\ statusRing' = [statusRing EXCEPT !.lastack = Head(requests.setStatusLast)]
  /\ requests' = [requests EXCEPT !.setStatusLast = Tail(@)]
  /\ UNCHANGED <<swVars, cmdBuffer, statusBuffer, results, cmdRing, reads, tokens, cmd, echoEngine, copyEngine, writes>>

get ==
  /\ requests.get # <<>>
  /\ results' = Append(results, cmdRing.lastack)
  /\ requests' = [requests EXCEPT !.get = Tail(@)]
  /\ UNCHANGED <<swVars, cmdBuffer, statusBuffer, hwVars>>

cmdFetch ==
  /\ cmdRing.first # cmdRing.lastfetch
  /\ tokens.reserved < Tokens
  /\ tokens' = [tokens EXCEPT !.reserved = @ + 1]
  /\ reads' = Append(reads, cmdRing.lastfetch)
  /\ cmdRing' = [cmdRing EXCEPT !.lastfetch = Next1(@)]
  /\ UNCHANGED <<swVars, cmdBuffer, statusBuffer, requests, results, statusRing, cmd, echoEngine, copyEngine, writes>>

\* The first word completes the fetch, before the others are read.
cmdDispatch ==
  /\ reads # <<>> /\ cmd = None
  /\ cmd' = cmdBuffer[Head(reads)]
  /\ tokens' = [tokens EXCEPT !.done = @ + 1]
  /\ UNCHANGED <<swVars, cmdBuffer, statusBuffer, requests, results, cmdRing, statusRing, reads, echoEngine, copyEngine, writes>>

finishCmdReads ==
  /\ tokens.done > 0
  /\ tokens' = [reserved |-> tokens.reserved - 1, done |-> tokens.done - 1]
  /\ cmdRing' = [cmdRing EXCEPT !.lastack = Next1(@)]
  /\ UNCHANGED <<swVars, cmdBuffer, statusBuffer, requests, results, statusRing, reads, cmd, echoEngine, copyEngine, writes>>

\* The opcode of the first word chooses the engine for the words that follow.
dispatch_rest ==
  LET rest == cmdBuffer[Head(reads)] IN
  /\ cmd # None
  /\ IF Opcode(cmd.id) = "echo"
     THEN Len(echoEngine) < EngineDepth /\ echoEngine' = Append(echoEngine, rest) /\ UNCHANGED copyEngine
     ELSE /\ Len(copyEngine.f_in) < EngineDepth
          /\ copyEngine' = [copyEngine EXCEPT !.f_in = Append(@, rest)]
          /\ UNCHANGED echoEngine
  /\ reads' = Tail(reads)
  /\ cmd' = None
  /\ UNCHANGED <<swVars, cmdBuffer, statusBuffer, requests, results, cmdRing, statusRing, tokens, writes>>

copyStart ==
  /\ copyEngine.busy = None /\ copyEngine.f_in # <<>>
  /\ copyEngine' = [copyEngine EXCEPT !.busy = Head(copyEngine.f_in), !.f_in = Tail(@)]
  /\ UNCHANGED <<swVars, cmdBuffer, statusBuffer, requests, results, cmdRing, statusRing, reads, tokens, cmd, echoEngine, writes>>

copyFinish ==
  /\ copyEngine.busy # None /\ Len(copyEngine.f_out) < EngineDepth
  /\ copyEngine' = [copyEngine EXCEPT !.f_out = Append(@, copyEngine.busy), !.busy = None]
  /\ UNCHANGED <<swVars, cmdBuffer, statusBuffer, requests, results, cmdRing, statusRing, reads, tokens, cmd, echoEngine, writes>>

\* Mutant: the last free slot is used.
NotFull_All == TRUE

NotFull == Next1(statusRing.first) # statusRing.lastack

responseArbiter ==
  /\ NotFull
  /\ \/ /\ copyEngine.f_out # <<>>
        /\ writes' = Append(writes, <<statusRing.first, Head(copyEngine.f_out)>>)
        /\ copyEngine' = [copyEngine EXCEPT !.f_out = Tail(@)]
        /\ UNCHANGED echoEngine
     \/ /\ echoEngine # <<>>
        /\ writes' = Append(writes, <<statusRing.first, Head(echoEngine)>>)
        /\ echoEngine' = Tail(echoEngine)
        /\ UNCHANGED copyEngine
  /\ statusRing' = [statusRing EXCEPT !.first = Next1(@)]
  /\ UNCHANGED <<swVars, cmdBuffer, statusBuffer, requests, results, cmdRing, reads, tokens, cmd>>

\* The last word of a status is written last, and the program looks at no other first.
status_write ==
  /\ writes # <<>>
  /\ statusBuffer' = [statusBuffer EXCEPT ![Head(writes)[1]] = Head(writes)[2]]
  /\ writes' = Tail(writes)
  /\ UNCHANGED <<swVars, cmdBuffer, requests, results, cmdRing, statusRing, reads, tokens, cmd, echoEngine, copyEngine>>

Design ==
  \/ setCmdFirst \/ setStatusLast \/ get \/ cmdFetch \/ cmdDispatch \/ finishCmdReads \/ dispatch_rest
  \/ copyStart \/ copyFinish \/ responseArbiter \/ status_write

Next == Program \/ Design

Fairness ==
  /\ WF_vars(Program) /\ WF_vars(setCmdFirst) /\ WF_vars(setStatusLast) /\ WF_vars(get)
  /\ WF_vars(cmdFetch) /\ WF_vars(cmdDispatch)
  /\ WF_vars(finishCmdReads) /\ WF_vars(dispatch_rest) /\ WF_vars(copyStart)
  /\ WF_vars(copyFinish) /\ WF_vars(responseArbiter) /\ WF_vars(status_write)

Spec == Init /\ [][Next]_vars /\ Fairness

-----------------------------------------------------------------------------
\* Where commands and statuses are: being read, not yet read, in an engine, being
\* written and not yet polled.
InEngines ==
  echoEngine \o copyEngine.f_in \o copyEngine.f_out
    \o (IF copyEngine.busy = None THEN <<>> ELSE <<copyEngine.busy>>)
Unread == {s \in 0 .. Slots - 1 :
             (s - cmdRing.lastfetch + Slots) % Slots < (cmd_ring.first - cmdRing.lastfetch + Slots) % Slots}
Moving ==
  {<<"reads", i, cmdBuffer[reads[i]]>> : i \in DOMAIN reads}
    \cup {<<"cmdBuffer", s, cmdBuffer[s]>> : s \in Unread}
    \cup {<<"engine", i, InEngines[i]>> : i \in DOMAIN InEngines}
    \cup {<<"writes", i, writes[i][2]>> : i \in DOMAIN writes}
    \cup {<<"statusBuffer", s, statusBuffer[s]>> :
             s \in {x \in 0 .. Slots - 1 : statusBuffer[x] # None}}

\* A command's slot is not written before all its words are read, although the
\* design acknowledges it after the first: the words an engine gets are of one
\* command.
WholeCommands == cmd # None => cmdBuffer[Head(reads)] = cmd

\* The completions in use are those of the commands the design has not read, the
\* ones in its engines and the statuses not yet polled, each of them once: no
\* command or status is overwritten, lost or doubled on its way.
CompletionsExact ==
  /\ Cardinality(Moving) = Cardinality(in_use)
  /\ \A x \in Moving : x[3].tag \in in_use /\ arg[x[3].tag] = x[3].id

\* get_free_completion never runs out of completions, and no status is for a
\* completion that is not in use: the program's assertions hold.
NoAssertion == pc # "assert"

\* The program gets all its completions.
RingFinishes == []<>(pc = "done")
=============================================================================
