---------------------------- MODULE TranslationPort ----------------------------
(***************************************************************************)
(* How the masters of a memory server share the MMUs: mkMMUAddrServer in   *)
(* bsv/MMU.bsv, and mkMemServerR in bsv/MemServer.bsv with the addrTrans   *)
(* of software, which uses the same port of an MMU behind its back.        *)
(*                                                                         *)
(* A master (mkMemReadInternal) is here its queue lreqFifo and the rules   *)
(* loadClient and checkMmuResp.  What is put into an MMU is numbered; the  *)
(* MMU answers in order, and does not answer what it rejects (MMU.bsv,     *)
(* stage2 and stage4 send an error to software only).                      *)
(***************************************************************************)
EXTENDS Integers, Sequences

CONSTANTS
  Master,         \* indices of readers, from 0
  Mmu,            \* indices of mmus
  ArbStates,      \* values of arb, 2^TLog(numServers)
  TokDepth,       \* depth of tokFifo
  PipelineDepth,  \* depth of lreqFifo
  Places,         \* requests an MMU has room for, and answers
  FifoDepth,      \* depth of mkFIFO
  MaxReq,         \* bound on the requests of a master
  MaxQuery,       \* bound on the calls of addrTrans
  MaxReject       \* bound on the requests that are rejected

VARIABLES
  lreqFifo,     \* per master, the MMU and number of its requests
  asked,        \* per master, how many requests it has made
  arb, tokFifo, \* of the mkMMUAddrServer of each MMU
  puts,         \* per MMU, how many requests it was given
  pipe, out,    \* per MMU, requests it works on and answers it has
  addrReqFifo,  \* the addrTrans calls that are not answered
  queries, rejected,  \* per MMU, how many of each there were
  answer        \* the last answer a master took: MMU, number wanted, number got

portVars == <<tokFifo, puts, pipe, out>>
vars == <<lreqFifo, asked, arb, portVars, addrReqFifo, queries, rejected, answer>>

Sum(f) == LET S[D \in SUBSET Mmu] ==
                IF D = {} THEN 0 ELSE LET d == CHOOSE x \in D : TRUE IN f[d] + S[D \ {d}]
          IN S[Mmu]

Init ==
  /\ lreqFifo = [i \in Master |-> << >>] /\ asked = [i \in Master |-> 0]
  /\ arb = [m \in Mmu |-> 0]
  /\ tokFifo = [m \in Mmu |-> << >>] /\ puts = [m \in Mmu |-> 0]
  /\ pipe = [m \in Mmu |-> << >>] /\ out = [m \in Mmu |-> << >>]
  /\ addrReqFifo = << >>
  /\ queries = [m \in Mmu |-> 0] /\ rejected = [m \in Mmu |-> 0]
  /\ answer = [mmu |-> CHOOSE m \in Mmu : TRUE, want |-> 0, got |-> 0]

inc_arb(m) ==
  /\ arb' = [arb EXCEPT ![m] = (@ + 1) % ArbStates]
  /\ UNCHANGED <<lreqFifo, asked, portVars, addrReqFifo, queries, rejected, answer>>

\* MMU m is given its next request.
MmuPut(m) ==
  /\ Len(pipe[m]) < Places
  /\ puts' = [puts EXCEPT ![m] = @ + 1]
  /\ pipe' = [pipe EXCEPT ![m] = Append(@, puts[m] + 1)]

\* Mutant: no token for the answer.
request_put_NoToken(i, m) == MmuPut(m) /\ arb[m] = i /\ UNCHANGED tokFifo

\* servers[i].request.put of MMU m.
request_put(i, m) ==
  /\ arb[m] = i
  /\ Len(tokFifo[m]) < TokDepth
  /\ tokFifo' = [tokFifo EXCEPT ![m] = Append(@, i)]
  /\ MmuPut(m)

loadClient(i, m) ==
  /\ asked[i] < MaxReq
  /\ asked' = [asked EXCEPT ![i] = @ + 1]
  /\ Len(lreqFifo[i]) < PipelineDepth
  /\ lreqFifo' = [lreqFifo EXCEPT ![i] = Append(@, [mmu |-> m, number |-> puts[m] + 1])]
  /\ request_put(i, m)
  /\ UNCHANGED <<arb, out, addrReqFifo, queries, rejected, answer>>

\* Mutant: any master takes the answer.
response_get_Any(i, m) ==
  /\ tokFifo[m] # << >>
  /\ tokFifo' = [tokFifo EXCEPT ![m] = Tail(@)]
  /\ out[m] # << >>
  /\ out' = [out EXCEPT ![m] = Tail(@)]

\* servers[i].response.get of MMU m.
response_get(i, m) ==
  /\ tokFifo[m] # << >> /\ Head(tokFifo[m]) = i
  /\ tokFifo' = [tokFifo EXCEPT ![m] = Tail(@)]
  /\ out[m] # << >>
  /\ out' = [out EXCEPT ![m] = Tail(@)]

\* The master takes the answer of the MMU its oldest request went to.
checkMmuResp(i) ==
  /\ lreqFifo[i] # << >>
  /\ LET r == Head(lreqFifo[i]) IN
       /\ response_get(i, r.mmu)
       /\ answer' = [mmu |-> r.mmu, want |-> r.number, got |-> Head(out[r.mmu])]
  /\ lreqFifo' = [lreqFifo EXCEPT ![i] = Tail(@)]
  /\ UNCHANGED <<asked, arb, puts, pipe, addrReqFifo, queries, rejected>>

addrTrans(m) ==
  /\ Sum(queries) < MaxQuery
  /\ Len(addrReqFifo) < FifoDepth
  /\ addrReqFifo' = Append(addrReqFifo, m)
  /\ MmuPut(m)
  /\ queries' = [queries EXCEPT ![m] = @ + 1]
  /\ UNCHANGED <<lreqFifo, asked, arb, tokFifo, out, rejected, answer>>

mmuEntry ==
  /\ addrReqFifo # << >>
  /\ LET m == Head(addrReqFifo) IN
       /\ out[m] # << >>
       /\ out' = [out EXCEPT ![m] = Tail(@)]
  /\ addrReqFifo' = Tail(addrReqFifo)
  /\ UNCHANGED <<lreqFifo, asked, arb, tokFifo, puts, pipe, queries, rejected, answer>>

\* The MMU answers its oldest request.
translate(m) ==
  /\ pipe[m] # << >> /\ Len(out[m]) < Places
  /\ out' = [out EXCEPT ![m] = Append(@, Head(pipe[m]))]
  /\ pipe' = [pipe EXCEPT ![m] = Tail(@)]
  /\ UNCHANGED <<lreqFifo, asked, arb, tokFifo, puts, addrReqFifo, queries, rejected,
                 answer>>

\* An identifier or an offset that is out of range.
reject(m) ==
  /\ pipe[m] # << >> /\ Sum(rejected) < MaxReject
  /\ pipe' = [pipe EXCEPT ![m] = Tail(@)]
  /\ rejected' = [rejected EXCEPT ![m] = @ + 1]
  /\ UNCHANGED <<lreqFifo, asked, arb, tokFifo, puts, out, addrReqFifo, queries, answer>>

Next ==
  \/ \E m \in Mmu : inc_arb(m) \/ addrTrans(m) \/ translate(m) \/ reject(m)
  \/ \E i \in Master : checkMmuResp(i) \/ \E m \in Mmu : loadClient(i, m)
  \/ mmuEntry

Spec == Init /\ [][Next]_vars

\* Rules fire when they can; nobody is obliged to ask.
Fairness ==
  /\ \A m \in Mmu : WF_vars(translate(m) \/ reject(m))
  /\ \A i \in Master : WF_vars(checkMmuResp(i))
  /\ WF_vars(mmuEntry)

FairSpec == Spec /\ Fairness

-----------------------------------------------------------------------------
\* The translation a master takes is that of its own request, but for one place for
\* each request its MMU has rejected (the answers behind it move up) and one for each
\* addrTrans on the same port, which has no token.
TranslationOff ==
  LET off == answer.got - answer.want
      bound == rejected[answer.mmu] + queries[answer.mmu]
  IN -queries[answer.mmu] <= off /\ off <= bound

\* As long as nothing is rejected every request is answered, also when masters use
\* several MMUs in different orders: no two of them wait for each other's tokens.
MastersServed ==
  []<>(Sum(rejected) = 0 => addrReqFifo = << >> /\ \A i \in Master : lreqFifo[i] = << >>)
=============================================================================
