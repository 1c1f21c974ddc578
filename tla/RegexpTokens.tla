---------------------------- MODULE RegexpTokens ----------------------------
(***************************************************************************)
(* examples/regexp: main configures one of the engines of lib/regexp for   *)
(* each search, is told which by setupComplete(token), and starts the      *)
(* search there.  searchResult(token, -1) ends a search: the poller's      *)
(* method gives the searched text back and retires the engine, which may   *)
(* then be configured for a later search.                                  *)
(***************************************************************************)
EXTENDS Integers, Sequences, FiniteSets

CONSTANTS
  DegPar,      \* engines, and max_num_tokens
  NumTests     \* num_tests

Engine == 0 .. DegPar - 1
Test == 0 .. NumTests - 1

VARIABLES
  pc,          \* main: setup, wait, read, search, last, exit, abort
  i,           \* main's loop variable
  mine,        \* main's token
  sem,         \* test_sem
  token,       \* deviceIndication->token
  storing,     \* the token setupComplete has posted for and not stored, -1 if none
  token_map,
  released,    \* texts unmapped and closed
  done_cnt, hw_match_cnt,
  setups,      \* setupFIFO: configurations asked for
  ready,       \* readyFIFO
  cmds,        \* per engine, its setsearchFIFO
  text,        \* per engine, the text it searches, -1 if none
  inds,        \* indications on their way to the poller
  stale        \* main read the token before it was stored

mainVars == <<pc, i, mine>>
wrapperVars == <<token, storing, released, done_cnt, hw_match_cnt>>
deviceVars == <<setups, ready, text>>
vars == <<mainVars, wrapperVars, deviceVars, sem, token_map, cmds, inds, stale>>

\* The token of the wrapper is not initialised: it may hold a number no engine has.
Init ==
  /\ pc = "setup" /\ i = 0 /\ mine = -1
  /\ sem = 0
  /\ token \in {0, DegPar}
  /\ storing = -1
  /\ token_map = [e \in Engine |-> 0]
  /\ released = {}
  /\ done_cnt = 0 /\ hw_match_cnt = 0
  /\ setups = 0
  /\ ready = [e \in 1 .. DegPar |-> e - 1]
  /\ cmds = [e \in Engine |-> <<>>]
  /\ text = [e \in Engine |-> -1]
  /\ inds = <<>>
  /\ stale = FALSE

-----------------------------------------------------------------------------
\* main.

\* The three setups, which one engine takes together, and readfile for the text.
setup ==
  /\ pc = "setup"
  /\ setups' = setups + 1
  /\ pc' = "wait"
  /\ UNCHANGED <<i, mine, wrapperVars, ready, text, sem, token_map, cmds, inds, stale>>

sem_wait ==
  /\ pc \in {"wait", "last"}
  /\ sem > 0
  /\ sem' = sem - 1
  /\ pc' = IF pc = "wait" THEN "read" ELSE "exit"
  /\ UNCHANGED <<i, mine, wrapperVars, deviceVars, token_map, cmds, inds, stale>>

\* int token = deviceIndication->token; assert(token < max_num_tokens)
read_token ==
  /\ pc = "read"
  /\ mine' = token
  /\ stale' = (stale \/ storing # -1)
  /\ pc' = IF token < DegPar THEN "search" ELSE "abort"
  /\ UNCHANGED <<i, wrapperVars, deviceVars, sem, token_map, cmds, inds>>

\* Mutant: token_map is set after the loop variable has moved on.
search_LateMap ==
  /\ pc = "search"
  /\ token_map' = [token_map EXCEPT ![mine] = i + 1]
  /\ cmds' = [cmds EXCEPT ![mine] = Append(@, <<"search", i>>)]
  /\ i' = i + 1
  /\ pc' = IF i + 1 < NumTests THEN "setup" ELSE "last"
  /\ UNCHANGED <<mine, wrapperVars, deviceVars, sem, inds, stale>>

\* token_map[token] = i; device->search(token, ...)
search ==
  /\ pc = "search"
  /\ token_map' = [token_map EXCEPT ![mine] = i]
  /\ cmds' = [cmds EXCEPT ![mine] = Append(@, <<"search", i>>)]
  /\ i' = i + 1
  /\ pc' = IF i + 1 < NumTests THEN "setup" ELSE "last"
  /\ UNCHANGED <<mine, wrapperVars, deviceVars, sem, inds, stale>>

-----------------------------------------------------------------------------
\* The methods of RegexpIndication, in the poller.

Idle == storing = -1 /\ pc \notin {"exit", "abort"}

\* setupComplete posts first and stores the token after.
setupComplete ==
  /\ Idle /\ inds # <<>> /\ Head(inds)[1] = "config"
  /\ sem' = sem + 1
  /\ storing' = Head(inds)[2]
  /\ inds' = Tail(inds)
  /\ UNCHANGED <<mainVars, token, released, done_cnt, hw_match_cnt, deviceVars, token_map, cmds, stale>>

setupComplete_store ==
  /\ storing # -1
  /\ token' = storing
  /\ storing' = -1
  /\ UNCHANGED <<mainVars, released, done_cnt, hw_match_cnt, deviceVars, sem, token_map, cmds, inds, stale>>

\* Mutant: the last but one posts.
searchResult_end_Early ==
  /\ Idle /\ inds # <<>> /\ Head(inds)[1] = "done"
  /\ LET t == Head(inds)[2]
     IN /\ released' = released \cup {token_map[t]}
        /\ cmds' = [cmds EXCEPT ![t] = Append(@, <<"retire", t>>)]
  /\ done_cnt' = done_cnt + 1
  /\ sem' = IF done_cnt + 2 = NumTests THEN sem + 1 ELSE sem
  /\ inds' = Tail(inds)
  /\ UNCHANGED <<mainVars, token, storing, hw_match_cnt, deviceVars, token_map, stale>>

\* searchResult(t, -1): the text and the engine are given back, and the last one posts.
searchResult_end ==
  /\ Idle /\ inds # <<>> /\ Head(inds)[1] = "done"
  /\ LET t == Head(inds)[2]
     IN /\ released' = released \cup {token_map[t]}
        /\ cmds' = [cmds EXCEPT ![t] = Append(@, <<"retire", t>>)]
  /\ done_cnt' = done_cnt + 1
  /\ sem' = IF done_cnt + 1 = NumTests THEN sem + 1 ELSE sem
  /\ inds' = Tail(inds)
  /\ UNCHANGED <<mainVars, token, storing, hw_match_cnt, deviceVars, token_map, stale>>

searchResult ==
  /\ Idle /\ inds # <<>> /\ Head(inds)[1] = "loc"
  /\ hw_match_cnt' = hw_match_cnt + 1
  /\ inds' = Tail(inds)
  /\ UNCHANGED <<mainVars, token, storing, released, done_cnt, deviceVars, sem, token_map, cmds, stale>>

-----------------------------------------------------------------------------
\* Regexp.bsv and RegexpEngine.bsv.

setup_r ==
  /\ setups > 0 /\ ready # <<>>
  /\ setups' = setups - 1
  /\ cmds' = [cmds EXCEPT ![Head(ready)] = Append(@, <<"config", Head(ready)>>)]
  /\ ready' = Tail(ready)
  /\ UNCHANGED <<mainVars, wrapperVars, text, sem, token_map, inds, stale>>

Cmd(e, c) == text[e] = -1 /\ cmds[e] # <<>> /\ Head(cmds[e])[1] = c
TakeCmd(e) == cmds' = [cmds EXCEPT ![e] = Tail(@)]

finishStateTransitionsWriter(e) ==
  /\ Cmd(e, "config") /\ TakeCmd(e)
  /\ inds' = Append(inds, <<"config", e>>)
  /\ UNCHANGED <<mainVars, wrapperVars, deviceVars, sem, token_map, stale>>

\* A text holds one match, which is found while it is searched.
setsearch_search(e) ==
  /\ Cmd(e, "search") /\ TakeCmd(e)
  /\ text' = [text EXCEPT ![e] = Head(cmds[e])[2]]
  /\ inds' = Append(inds, <<"loc", e>>)
  /\ UNCHANGED <<mainVars, wrapperVars, setups, ready, sem, token_map, stale>>

haystackFinish(e) ==
  /\ text[e] # -1
  /\ text' = [text EXCEPT ![e] = -1]
  /\ inds' = Append(inds, <<"done", e>>)
  /\ UNCHANGED <<mainVars, wrapperVars, setups, ready, sem, token_map, cmds, stale>>

\* Mutant: the engine does not become ready again.
setsearch_retire_Lost(e) ==
  /\ Cmd(e, "retire") /\ TakeCmd(e)
  /\ UNCHANGED <<mainVars, wrapperVars, deviceVars, sem, token_map, inds, stale>>

setsearch_retire(e) ==
  /\ Cmd(e, "retire") /\ TakeCmd(e)
  /\ ready' = Append(ready, e)
  /\ UNCHANGED <<mainVars, wrapperVars, setups, text, sem, token_map, inds, stale>>

Main == setup \/ sem_wait \/ read_token \/ search
Wrapper == setupComplete \/ setupComplete_store \/ searchResult_end \/ searchResult
Device(e) ==
  finishStateTransitionsWriter(e) \/ setsearch_search(e) \/ haystackFinish(e) \/ setsearch_retire(e)

Next == Main \/ Wrapper \/ setup_r \/ \E e \in Engine : Device(e)

Spec == Init /\ [][Next]_vars

\* While main, the poller or the hardware can take a step, one of them does.
FairSpec == Spec /\ WF_vars(Next)

-----------------------------------------------------------------------------
\* A text is not given back while an engine searches it, nor before: token_map still
\* names it when its search ends, however the searches overtake one another.
TextKept ==
  ~stale =>
    /\ \A e \in Engine : text[e] \notin released
    /\ \A e \in Engine, k \in 1 .. NumTests :
         k \in DOMAIN cmds[e] /\ cmds[e][k][1] = "search" => cmds[e][k][2] \notin released

\* When main exits every text has been given back and every match counted.
AllCounted == ~stale /\ pc = "exit" => released = Test /\ hw_match_cnt = NumTests

Over == pc = "exit" \/ stale

\* main comes to its end: no engine is left out of the ready queue.
RegexpEnds == []<>Over
=============================================================================
