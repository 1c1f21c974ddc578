----------------------------- MODULE ZynqDriver -----------------------------
(***************************************************************************)
(* The life of the portals in drivers/zynqportal/zynqportal.c.  Opening    *)
(* /dev/connectal forgets the portals there are and queues the work that   *)
(* finds and registers those of the hardware; processes open them, ask for *)
(* their interrupt, sleep in portal_poll and are woken by portal_isr.      *)
(*                                                                         *)
(* Each opening of /dev/connectal allocates one array of portal_data, here *)
(* a generation; a portal is a generation and a number.  ws, the argument  *)
(* of the work, is one static structure.                                   *)
(***************************************************************************)
EXTENDS Integers, FiniteSets

CONSTANTS
  NumPortals,  \* portals of the hardware
  MaxNumPortals,  \* MAX_NUM_PORTALS
  Proc,        \* processes
  MaxGen       \* bound on the openings of /dev/connectal

\* The last portal is marked as such, and portal_data has room for it.
ASSUME NumPortalsAssumption ==
  MaxNumPortals \in Nat /\ NumPortals \in 1 .. MaxNumPortals
ASSUME MaxGenAssumption == MaxGen \in Nat

None == <<0, 0>>
Number == 0 .. MaxNumPortals - 1
Gen == 1 .. MaxGen
Hw(d) == d[2]

VARIABLES
  driver,   \* off, on, removing, gone
  current,  \* connectal_data->portal_data, 0 when NULL
  freed,    \* generations freed
  gens,     \* number of generations so far
  ws,       \* the generation the work fills
  queued,   \* is connectal_work queued?
  running,  \* the portal the work is at, or -1
  misc,     \* registered portals
  irq,      \* portals whose irq_is_registered
  irq0,     \* portals whose portal_irq is 0 after a refused request
  file,     \* the portal each process has open
  asleep,   \* processes asleep in portal_poll
  waiting,  \* the wait queues: processes a wake-up reaches
  enable,   \* interrupt enable registers of the hardware
  topped,   \* generations whose last portal is marked as the last
  wq,       \* is there a work queue?
  misuse,   \* what the driver did that it must not
  rash,     \* what was in use when /dev/connectal was opened or the driver removed
  failed    \* what the kernel refused to an opening: memory, resources, workqueue, register

workVars == <<gens, ws, queued, running, topped, wq>>
fileVars == <<file, asleep, waiting, enable, irq0>>
blameVars == <<rash, failed>>
zynqVars == <<driver, current, freed, workVars, misc, irq, fileVars, misuse, blameVars>>

ZynqInit ==
  /\ driver = "off" /\ current = 0 /\ freed = {} /\ gens = 0
  /\ ws = 0 /\ queued = FALSE /\ running = -1 /\ topped = {} /\ wq = FALSE
  /\ misc = {} /\ irq = {} /\ irq0 = {}
  /\ file = [q \in Proc |-> None]
  /\ asleep = {} /\ waiting = {} /\ enable = {}
  /\ misuse = {} /\ rash = {} /\ failed = {}

WorkPending == queued \/ running # -1

InUse ==
  (IF WorkPending THEN {"work"} ELSE {}) \cup (IF \E q \in Proc : file[q] # None THEN {"files"} ELSE {})

\* Mutant: the loop does not stop at the last portal.
remove_portal_devices_All(g) ==
  LET gone == {<<g, p>> : p \in Number} IN
  /\ misc' = misc \ gone
  /\ irq' = irq \ gone
  /\ freed' = freed \cup {g}
  /\ misuse' = misuse \cup (IF gone \subseteq misc THEN {} ELSE {"deregister"})
                      \cup (IF g \in freed THEN {"freed"} ELSE {})

\* The loop stops at the portal the work has marked as the last.
remove_portal_devices(g) ==
  LET visited == IF g \in topped THEN 0 .. NumPortals - 1 ELSE Number
      gone == {<<g, p>> : p \in visited}
  IN
  /\ misc' = misc \ gone
  /\ irq' = irq \ gone
  /\ freed' = freed \cup {g}
  /\ misuse' = misuse \cup (IF gone \subseteq misc THEN {} ELSE {"deregister"})
                      \cup (IF g \in freed THEN {"freed"} ELSE {})

Forget == IF current # 0 THEN remove_portal_devices(current) ELSE UNCHANGED <<misc, irq, freed, misuse>>

\* Without its resources the function returns before portal_data is replaced: it still
\* points to what was freed.  Without memory, or a work queue, it goes on.
connectal_open ==
  /\ driver = "on"
  /\ gens < MaxGen
  /\ gens' = gens + 1
  /\ Forget
  /\ rash' = rash \cup InUse
  /\ \/ /\ failed' = failed \cup {"resources"}
        /\ UNCHANGED <<ws, current, queued, wq>>
     \/ \E drvdata \in {0, gens + 1} :
          /\ ws' = drvdata /\ current' = drvdata
          /\ wq' \in {TRUE, wq}
          /\ queued' = (queued \/ wq')
          /\ failed' = failed \cup (IF drvdata = 0 THEN {"memory"} ELSE {})
                              \cup (IF wq' THEN {} ELSE {"workqueue"})
  /\ UNCHANGED <<driver, running, topped, fileVars>>

connectal_work_start ==
  /\ queued /\ running = -1
  /\ queued' = FALSE
  /\ running' = 0
  /\ UNCHANGED <<driver, current, freed, gens, ws, topped, wq, misc, irq, fileVars, misuse, blameVars>>

\* Mutant: the mark of the last portal is taken for the end of the list.
connectal_work_handler_Short ==
  /\ running # -1
  /\ misc' = misc \cup {<<ws, running>>}
  /\ misuse' = misuse \cup (IF ws \in freed THEN {"freed"} ELSE {})
  /\ topped' = IF running + 2 >= NumPortals THEN topped \cup {ws} ELSE topped
  /\ running' = IF running + 2 >= NumPortals THEN -1 ELSE running + 1
  /\ UNCHANGED <<driver, current, freed, gens, ws, queued, wq, irq, fileVars, blameVars>>

\* One portal; ws is read again for each.  That misc_register failed is only printed.
connectal_work_handler ==
  /\ running # -1
  /\ \/ misc' = misc \cup {<<ws, running>>} /\ UNCHANGED failed
     \/ misc' = misc /\ failed' = failed \cup {"register"}
  /\ misuse' = misuse \cup (IF ws \in freed THEN {"freed"} ELSE {})
                      \cup (IF ws = 0 THEN {"null"} ELSE {})
                      \cup (IF <<ws, running>> \in misc THEN {"register"} ELSE {})
  /\ topped' = IF running + 1 = NumPortals THEN topped \cup {ws} ELSE topped
  /\ running' = IF running + 1 = NumPortals \/ running + 1 >= MaxNumPortals THEN -1 ELSE running + 1
  /\ UNCHANGED <<driver, current, freed, gens, ws, queued, wq, irq, fileVars, rash>>

connectal_of_probe ==
  /\ driver = "off"
  /\ driver' = "on"
  /\ UNCHANGED <<current, freed, workVars, misc, irq, fileVars, misuse, blameVars>>

\* The portals are forgotten first, the work is cancelled after it.
connectal_of_remove ==
  /\ driver = "on"
  /\ driver' = "removing"
  /\ Forget
  /\ rash' = rash \cup InUse
  /\ UNCHANGED <<current, workVars, fileVars, failed>>

cancel_delayed_work_sync ==
  /\ driver = "removing"
  /\ running = -1
  /\ driver' = "gone"
  /\ queued' = FALSE
  /\ UNCHANGED <<current, freed, gens, ws, running, topped, wq, misc, irq, fileVars, misuse, blameVars>>

-----------------------------------------------------------------------------
\* A process and its portal.

OpenOn(d) == {q \in Proc : file[q] = d}

\* portal_open initialises the wait queue again.
portal_open(q, d) ==
  /\ file[q] = None
  /\ d \in misc
  /\ file' = [file EXCEPT ![q] = d]
  /\ waiting' = waiting \ OpenOn(d)
  /\ UNCHANGED <<driver, current, freed, workVars, misc, irq, irq0, asleep, enable, misuse, blameVars>>

\* PORTAL_ENABLE_INTERRUPT and then the enable register, in init_hardware.
enable_interrupt(q) ==
  LET d == file[q] IN
  /\ d # None /\ q \notin asleep
  /\ \/ d \in irq /\ UNCHANGED <<irq, irq0>>
     \/ d \notin irq /\ irq' = irq \cup {d} /\ UNCHANGED irq0
     \/ d \notin irq /\ irq0' = irq0 \cup {d} /\ UNCHANGED irq
  /\ misuse' = misuse \cup (IF d[1] \in freed THEN {"freed"} ELSE {})
                      \cup (IF d \in irq0 /\ d \notin irq THEN {"irq0"} ELSE {})
  /\ enable' = enable \cup {Hw(d)}
  /\ UNCHANGED <<driver, current, freed, workVars, misc, file, asleep, waiting, blameVars>>

portal_poll(q) ==
  /\ file[q] # None /\ q \notin asleep
  /\ asleep' = asleep \cup {q}
  /\ waiting' = waiting \cup {q}
  /\ misuse' = IF file[q][1] \in freed THEN misuse \cup {"freed"} ELSE misuse
  /\ UNCHANGED <<driver, current, freed, workVars, misc, irq, irq0, file, enable, blameVars>>

\* An indication of an enabled portal whose handler is registered.
portal_isr(d) ==
  /\ d \in irq
  /\ Hw(d) \in enable
  /\ enable' = enable \ {Hw(d)}
  /\ asleep' = asleep \ (waiting \cap OpenOn(d))
  /\ waiting' = waiting \ OpenOn(d)
  /\ UNCHANGED <<driver, current, freed, workVars, misc, irq, irq0, file, misuse, blameVars>>

\* Mutant: the interrupt is not freed.
portal_release_KeepsIrq(q) ==
  LET d == file[q] IN
  /\ d # None /\ q \notin asleep
  /\ file' = [file EXCEPT ![q] = None]
  /\ waiting' = waiting \ OpenOn(d)
  /\ misuse' = IF d[1] \in freed THEN misuse \cup {"freed"} ELSE misuse
  /\ UNCHANGED <<driver, current, freed, workVars, misc, irq, irq0, asleep, enable, blameVars>>

\* The write meant to disable the interrupt goes to the status register, which
\* ignores it.
portal_release(q) ==
  LET d == file[q] IN
  /\ d # None /\ q \notin asleep
  /\ file' = [file EXCEPT ![q] = None]
  /\ irq' = irq \ {d}
  /\ waiting' = waiting \ OpenOn(d)
  /\ misuse' = IF d[1] \in freed THEN misuse \cup {"freed"} ELSE misuse
  /\ UNCHANGED <<driver, current, freed, workVars, misc, irq0, asleep, enable, blameVars>>

\* After freed memory is used, or a misc device deregistered twice, there is nothing
\* to say any more.
Sane == misuse \subseteq {"irq0"}

ZynqNext ==
  /\ Sane
  /\ \/ connectal_of_probe \/ connectal_of_remove \/ cancel_delayed_work_sync
     \/ connectal_open \/ connectal_work_start \/ connectal_work_handler
     \/ \E q \in Proc : enable_interrupt(q) \/ portal_poll(q) \/ portal_release(q)
     \/ \E d \in Gen \X Number : portal_isr(d) \/ \E q \in Proc : portal_open(q, d)

ZynqSpec == ZynqInit /\ [][ZynqNext]_zynqVars

-----------------------------------------------------------------------------
\* The driver errs in no other way than these.  It uses freed portal_data only through
\* a file that was open when /dev/connectal was opened again, or once an opening found
\* no resources; it deregisters what is not registered only after a kernel call of an
\* opening or of its work failed; it writes through NULL only for want of memory.
MisuseHasCause ==
  "work" \notin rash =>
    /\ "freed" \in misuse => "files" \in rash \/ "resources" \in failed
    /\ "deregister" \in misuse => failed \cap {"resources", "workqueue", "register"} # {}
    /\ "null" \in misuse => "memory" \in failed
    /\ "register" \notin misuse

\* Why nothing is said of an opening, or a removal, while the work is pending: it
\* deregisters portals the work has not come to.
OvertakenIsLost == "work" \in rash /\ "memory" \notin failed => "deregister" \in misuse

\* Up to such an error the portals that can be opened are those of the newest
\* generation, all of them once the work is done and if no kernel call failed, whatever
\* files of former generations are open.
PortalsRegistered ==
  Sane /\ "work" \notin rash /\ ~WorkPending =>
    LET all == IF driver = "on" /\ current # 0
               THEN {<<current, p>> : p \in 0 .. NumPortals - 1} ELSE {}
    IN  misc \subseteq all /\ (failed = {} => misc = all)

\* Up to such an error the kernel calls portal_isr only for a portal that is registered,
\* so not freed, and that a process has open.
HandlerHasFile ==
  Sane /\ "work" \notin rash => \A d \in irq : d \in misc /\ OpenOn(d) # {}

\* /dev/connectal replaces all portals: nothing freed is used and nothing deregistered
\* that is not registered but for the causes named, the new portals are registered, and
\* only open ones have their interrupt on.
PortalsReplaced == MisuseHasCause /\ OvertakenIsLost /\ PortalsRegistered /\ HandlerHasFile

-----------------------------------------------------------------------------
\* The inductive invariant of the proofs.

\* The portals registered so far if no call failed.
Registered ==
  IF driver # "on" \/ current = 0 \/ queued THEN {}
  ELSE {<<current, p>> : p \in 0 .. (IF running = -1 THEN NumPortals ELSE running) - 1}

ZynqTypes ==
  /\ driver \in {"off", "on", "removing", "gone"}
  /\ gens \in 0 .. MaxGen /\ current \in 0 .. gens
  /\ queued \in BOOLEAN /\ wq \in BOOLEAN
  /\ running \in -1 .. NumPortals - 1
  /\ file \in [Proc -> (Gen \X Number) \cup {None}]
  /\ irq \subseteq Gen \X Number

\* The failures after which portals are missing.
Missing == failed \cap {"resources", "workqueue", "register"} # {}

\* What holds up to the first error, and while the work was never overtaken.
CarefulInv ==
  /\ freed \cup topped \subseteq 1 .. gens
  /\ driver = "on" /\ current \in freed => "resources" \in failed
  /\ driver = "off" => current = 0
  /\ WorkPending => /\ driver = "on" /\ ws = current /\ current \notin freed \cup topped
                    /\ current = 0 => "memory" \in failed
  /\ ~(queued /\ running # -1)
  /\ current \in freed => misc = {}
  /\ misc \subseteq Registered
  /\ ~Missing => misc = Registered /\ (driver = "on" /\ current # 0 /\ ~WorkPending => current \in topped)
  /\ \A q \in Proc : file[q] # None => file[q] \in misc \/ (file[q][1] \in freed /\ "files" \in rash)
  /\ \A d \in irq : d \in misc /\ OpenOn(d) # {}

ZynqInv ==
  /\ ZynqTypes
  /\ MisuseHasCause
  /\ OvertakenIsLost
  /\ Sane /\ "work" \notin rash => CarefulInv
=============================================================================
