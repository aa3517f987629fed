--------------------------------- MODULE Driver ---------------------------------
(* NodeDriver of node/driver with the monitor of node/monitor: the six goroutines *)
(* that Drive starts, the channels between them, and the shutdown by an entry     *)
(* point of node/entry. The tunnels, the relay manager and the mesh manager that  *)
(* they call are Tunnel, RelayManager and Mesh; a call into them is one step here.*)
EXTENDS Naturals, Sequences, Functions

CONSTANTS Addrs,    \* external addresses that a STUN server may report
          Pushers,  \* goroutines of relay clients and tunnels that deliver packets
          DevCap,   \* capacity of chDevWrite
          EventCap, \* eventBufferSize: capacity of Monitor.events
          NoAddr

ASSUME DriverAssumption == DevCap \in Nat \ {0} /\ EventCap \in Nat \ {0} /\ NoAddr \notin Addrs

VARIABLES cancelled,    \* the context of Drive is cancelled
          device,       \* "open", "closed"
          enable,       \* d.enable
          running,      \* d.running
          started,      \* goroutines that Drive has started
          term,         \* the caller of Terminate: "no", "wait", "returned", "exited"
          pc,           \* the goroutines of Drive
          chDevWrite,   \* packets in the channel
          pushing,      \* Pushers that wait to send into chDevWrite, in the order of their arrival
          externalAddr, \* Monitor.externalAddr
          events,       \* Monitor.events
          told          \* NodeDriver.externalAddr, and what SyncEndpoints was given

life == <<cancelled, device, enable, running, started, term>>
pipe == <<chDevWrite, pushing>>
address == <<externalAddr, events, told>>
vars == <<life, pc, pipe, address>>

Goroutines == {"serveDevRead", "serveDevWrite", "pullPeerGraph", "eventsMonitor", "Monitoring",
               "renewCredential"}

\* In the order of the go statements of Drive; the first two are added to the group together.
Starts == <<{"serveDevRead", "serveDevWrite"}, {"pullPeerGraph"}, {"eventsMonitor"}, {"Monitoring"},
            {"renewCredential"}>>

TypeOK ==
  /\ cancelled \in BOOLEAN /\ device \in {"open", "closed"} /\ enable \in BOOLEAN
  /\ running \in BOOLEAN /\ started \in 0 .. Len(Starts)
  /\ term \in {"no", "wait", "returned", "exited"}
  /\ pc \in [Goroutines -> {"new", "select", "reading", "writing", "busy", "send", "done"}]
  /\ chDevWrite \in 0 .. DevCap /\ pushing \in Seq(Pushers)
  /\ externalAddr \in Addrs \cup {NoAddr} /\ told \in Addrs \cup {NoAddr}
  /\ events \in Seq(Addrs) /\ Len(events) <= EventCap

Init ==
  /\ cancelled = FALSE /\ device = "open" /\ enable = TRUE
  /\ running = FALSE /\ started = 0 /\ term = "no"
  /\ pc = [g \in Goroutines |-> "new"]
  /\ chDevWrite = 0 /\ pushing = <<>>
  /\ externalAddr = NoAddr /\ events = <<>> /\ told = NoAddr

Goto(g, label) == pc' = [pc EXCEPT ![g] = label]

\* What d.wg counts: goroutines started and not returned.
Waited == {g \in Goroutines : pc[g] \notin {"new", "done"}}

--------------------------------------------------------------------------------
(* Drive, Enable, Disable, and the shutdown.                                      *)

\* The entry points run Drive in a goroutine of its own.
Drive ==
  /\ ~running
  /\ running' = TRUE
  /\ UNCHANGED <<cancelled, device, enable, started, term, pc, pipe, address>>

DriveGo ==
  /\ running /\ started < Len(Starts)
  /\ started' = started + 1
  /\ pc' = [g \in Goroutines |-> IF g \in Starts[started'] THEN "select" ELSE pc[g]]
  /\ UNCHANGED <<cancelled, device, enable, running, term, pipe, address>>

switchDriverEnable ==
  /\ enable' = ~enable
  /\ UNCHANGED <<cancelled, device, running, started, term, pc, pipe, address>>

\* Every entry point cancels the context before it calls Terminate.
Cancel ==
  /\ ~cancelled
  /\ cancelled' = TRUE
  /\ UNCHANGED <<device, enable, running, started, term, pc, pipe, address>>

\* onQuit closes the device after the cancellation; the command line and onLogout do not.
CloseDevice ==
  /\ cancelled /\ device = "open" /\ term = "no"
  /\ device' = "closed"
  /\ UNCHANGED <<cancelled, enable, running, started, term, pc, pipe, address>>

Terminate ==
  /\ cancelled /\ term = "no"
  /\ term' = IF running THEN "wait" ELSE "returned"
  /\ UNCHANGED <<cancelled, device, enable, running, started, pc, pipe, address>>

\* d.wg.Wait().
TerminateReturn ==
  /\ term = "wait" /\ Waited = {}
  /\ term' = "returned"
  /\ UNCHANGED <<cancelled, device, enable, running, started, pc, pipe, address>>

--------------------------------------------------------------------------------
(* The device.                                                                    *)

\* Fault: the context is not looked at.
serveDevReadFaulty ==
  /\ pc["serveDevRead"] = "select"
  /\ Goto("serveDevRead", "reading")
  /\ UNCHANGED <<life, pipe, address>>

serveDevRead ==
  /\ pc["serveDevRead"] = "select"
  /\ Goto("serveDevRead", IF cancelled THEN "done" ELSE "reading")
  /\ UNCHANGED <<life, pipe, address>>

\* Read fails once the device is closed.
ReadFails ==
  /\ pc["serveDevRead"] = "reading" /\ device = "closed"
  /\ Goto("serveDevRead", "select")
  /\ UNCHANGED <<life, pipe, address>>

\* A packet: dropped while the driver is disabled, without a destination or without a tunnel for
\* it, else written to the tunnel. (The own address has no tunnel, so the loopback is not reached.)
ReadPacket ==
  /\ pc["serveDevRead"] = "reading"
  /\ \/ Goto("serveDevRead", "select")
     \/ enable /\ Goto("serveDevRead", "writing")
  /\ UNCHANGED <<life, pipe, address>>

\* Tunnel.Write returns. It may also wait for ever, on an endpoint whose writer has stopped.
TunnelWritten ==
  /\ pc["serveDevRead"] = "writing"
  /\ Goto("serveDevRead", "select")
  /\ UNCHANGED <<life, pipe, address>>

\* Fault: a packet that the device refuses ends the goroutine.
serveDevWriteFaulty ==
  /\ pc["serveDevWrite"] = "select" /\ chDevWrite > 0
  /\ chDevWrite' = chDevWrite - 1
  /\ Goto("serveDevWrite", IF enable THEN "select" ELSE "done")
  /\ UNCHANGED <<pushing, life, address>>

\* The packet is dropped while disabled, and otherwise written; a failed write is logged.
serveDevWrite ==
  /\ pc["serveDevWrite"] = "select" /\ chDevWrite > 0
  /\ chDevWrite' = chDevWrite - 1
  /\ UNCHANGED <<pc, pushing, life, address>>

\* OnForward and OnFragment, at their send.
OnForward(p) ==
  /\ running /\ p \notin Range(pushing)
  /\ pushing' = Append(pushing, p)
  /\ UNCHANGED <<pc, chDevWrite, life, address>>

\* The channel takes the packet of the sender that has waited longest.
Push ==
  /\ pushing # <<>> /\ chDevWrite < DevCap
  /\ pushing' = Tail(pushing)
  /\ chDevWrite' = chDevWrite + 1
  /\ UNCHANGED <<pc, life, address>>

--------------------------------------------------------------------------------
(* The external address: Monitoring detects it, eventsMonitor announces it.       *)

\* DetectExternalAddress dials, which fails under a cancelled context.
Detect ==
  /\ pc["Monitoring"] = "select" /\ ~cancelled
  /\ Goto("Monitoring", "busy")
  /\ UNCHANGED <<life, pipe, address>>

\* Fault: the deadline leads to another request whatever the context.
DetectFailsFaulty ==
  /\ pc["Monitoring"] = "busy" /\ ~cancelled
  /\ Goto("Monitoring", "select")
  /\ UNCHANGED <<life, pipe, address>>

\* The dial or the socket fails, or the read deadline passes under a cancelled context.
DetectFails ==
  /\ pc["Monitoring"] = "busy"
  /\ Goto("Monitoring", "select")
  /\ UNCHANGED <<life, pipe, address>>

Detected(a) ==
  /\ pc["Monitoring"] = "busy"
  /\ externalAddr' = a
  /\ Goto("Monitoring", IF externalAddr = a THEN "select" ELSE "send")
  /\ UNCHANGED <<events, told, life, pipe>>

\* Fault: the event is dropped when the channel is full.
eventFaulty ==
  /\ pc["Monitoring"] = "send"
  /\ events' = IF Len(events) < EventCap THEN Append(events, externalAddr) ELSE events
  /\ Goto("Monitoring", "select")
  /\ UNCHANGED <<externalAddr, told, life, pipe>>

\* The send waits for room, whatever becomes of the context.
event ==
  /\ pc["Monitoring"] = "send" /\ Len(events) < EventCap
  /\ events' = Append(events, externalAddr)
  /\ Goto("Monitoring", "select")
  /\ UNCHANGED <<externalAddr, told, life, pipe>>

ExternalAddressChanged ==
  /\ pc["eventsMonitor"] = "select" /\ events # <<>>
  /\ told' = Head(events)
  /\ events' = Tail(events)
  /\ UNCHANGED <<pc, externalAddr, life, pipe>>

--------------------------------------------------------------------------------
(* Pulling and renewing: calls of the portal and the managers between selects.    *)

pullPeerGraph ==
  /\ pc["pullPeerGraph"] = "select"
  /\ Goto("pullPeerGraph", "busy")
  /\ UNCHANGED <<life, pipe, address>>

renewCredential ==
  /\ pc["renewCredential"] = "select"
  /\ Goto("renewCredential", "busy")
  /\ UNCHANGED <<life, pipe, address>>

CallReturns(g) ==
  /\ g \in {"pullPeerGraph", "renewCredential"} /\ pc[g] = "busy"
  /\ Goto(g, "select")
  /\ UNCHANGED <<life, pipe, address>>

\* nextRenewTime with an expired credential ends the process, and with it all goroutines.
CredentialExpired ==
  /\ pc["renewCredential"] \in {"select", "busy"}
  /\ pc' = [g \in Goroutines |-> "done"]
  /\ term' = "exited"
  /\ chDevWrite' = 0 /\ pushing' = <<>> /\ events' = <<>>
  /\ UNCHANGED <<cancelled, device, enable, running, started, externalAddr, told>>

\* The goroutines whose select sees the cancelled context.
Done(g) ==
  /\ g # "serveDevRead" /\ pc[g] = "select" /\ cancelled
  /\ Goto(g, "done")
  /\ UNCHANGED <<life, pipe, address>>

Next ==
  /\ term # "exited"
  /\ \/ Drive \/ DriveGo \/ switchDriverEnable \/ Cancel \/ CloseDevice \/ Terminate \/ TerminateReturn
     \/ serveDevRead \/ ReadFails \/ ReadPacket \/ TunnelWritten \/ serveDevWrite
     \/ (\E p \in Pushers : OnForward(p)) \/ Push
     \/ Detect \/ DetectFails \/ (\E a \in Addrs : Detected(a)) \/ event \/ ExternalAddressChanged
     \/ pullPeerGraph \/ renewCredential \/ CredentialExpired
     \/ \E g \in Goroutines : CallReturns(g) \/ Done(g)

\* A goroutine that can go on does, and a select that finds the context cancelled again and
\* again takes that branch at some time: Go chooses at random among the branches that are ready.
\* The deadline of the STUN socket passes.
\* Nothing is assumed of packets, of STUN answers, of Tunnel.Write, or of the user.
Fairness ==
  /\ WF_vars(term # "exited" /\ DriveGo) /\ WF_vars(TerminateReturn)
  /\ WF_vars(serveDevRead) /\ WF_vars(ReadFails) /\ WF_vars(serveDevWrite)
  /\ WF_vars(Push)
  /\ WF_vars(cancelled /\ DetectFails) /\ WF_vars(event) /\ WF_vars(ExternalAddressChanged)
  /\ \A g \in {"pullPeerGraph", "renewCredential"} : WF_vars(CallReturns(g)) /\ SF_vars(Done(g))
  /\ \A g \in {"serveDevWrite", "eventsMonitor", "Monitoring"} : WF_vars(Done(g))

Spec == Init /\ [][Next]_vars /\ Fairness

--------------------------------------------------------------------------------
(* Properties.                                                                    *)

\* When Terminate has returned no goroutine of this driver takes packets from the device, also
\* when Terminate overtook Drive: onLogout gives the device to a new driver, whose packets a
\* forgotten serveDevRead would take.
DeviceReleased == term = "returned" => pc["serveDevRead"] \notin {"reading", "writing"}

\* Terminate returns: the one thing it can wait for without end is serveDevRead, in a Read of a
\* device that nobody closed or in Tunnel.Write, and a monitor that blocks on a full channel at
\* the time of the cancellation.
TerminateReturns ==
  (term = "wait" /\ Len(events) < EventCap)
    ~> \/ term \in {"returned", "exited"}
       \/ [](pc["serveDevRead"] = "writing" \/ (pc["serveDevRead"] = "reading" /\ device = "open"))

\* What the peers were told, or will be once eventsMonitor has received what is on its way.
LastReported == IF events = <<>> THEN told ELSE events[Len(events)]

\* The monitor caches an address before it reports it and never reports a cached one again: so
\* the address in the cache must always be the last one on its way to the peers or told to them,
\* also with a full channel and with the driver shutting down.
AddressNotLost ==
  pc["Monitoring"] # "send" /\ term # "exited" => externalAddr = LastReported

\* The external address that the monitor has cached, and will not report again, reaches the
\* peers, unless it is replaced or the driver shuts down.
AddressAnnounced ==
  \A a \in Addrs : externalAddr = a ~> (told = a \/ externalAddr # a \/ cancelled \/ term = "exited")

\* While the driver runs no goroutine of a relay client or a tunnel is held up for ever by a
\* packet for the device, with the driver disabled as well.
DeliveryGoesOn == \A p \in Pushers : p \in Range(pushing) ~> (p \notin Range(pushing) \/ cancelled)
================================================================================
