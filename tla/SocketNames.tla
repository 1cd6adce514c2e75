---------------------------- MODULE SocketNames ----------------------------
(***************************************************************************)
(* What a ptnio server promises its clients about socket names, with the   *)
(* list, the memory, the mutex and the descriptors left out: a set of      *)
(* names, each of at most one socket, and requests whose answer tells what *)
(* happened to the name they ask about.  A request only ever touches its   *)
(* own name.                                                               *)
(*                                                                         *)
(* new and accept first give up the socket that has the name, and then     *)
(* create the new one: a request that fails may have lost the old socket.  *)
(***************************************************************************)
EXTENDS Naturals

CONSTANTS Worker, Name, Request, NoRequest

VARIABLES
  names,    \* the names that have a socket
  asked,    \* asked[w]: the request worker w serves, or NoRequest
  dropped,  \* dropped[w]: w gave up the old socket of its name
  answer    \* answer[w]: "none" until w has answered

vars == <<names, asked, dropped, answer>>

Target(r) == IF r.cmd = "accept" THEN r.new ELSE r.id

Init ==
  /\ names = {}
  /\ asked = [w \in Worker |-> NoRequest]
  /\ dropped = [w \in Worker |-> FALSE]
  /\ answer = [w \in Worker |-> "none"]

Serving(w, cmds) == asked[w].cmd \in cmds /\ answer[w] = "none"

Answer(w, code) ==
  /\ answer' = [answer EXCEPT ![w] = code]
  /\ dropped' = [dropped EXCEPT ![w] = FALSE]

Ask(w) ==
  /\ asked[w] = NoRequest
  /\ \E r \in Request : asked' = [asked EXCEPT ![w] = r]
  /\ UNCHANGED <<names, dropped, answer>>

\* The name loses its socket.
Drop(w) ==
  /\ Serving(w, {"new", "free", "accept"})
  /\ ~dropped[w]
  /\ Target(asked[w]) \in names
  /\ names' = names \ {Target(asked[w])}
  /\ dropped' = [dropped EXCEPT ![w] = TRUE]
  /\ UNCHANGED <<asked, answer>>

\* The name gets its socket; the answer says whether it had one.
Create(w) ==
  /\ Serving(w, {"new", "accept"})
  /\ Target(asked[w]) \notin names
  /\ names' = names \cup {Target(asked[w])}
  /\ Answer(w, IF dropped[w] THEN "OVERWRITTEN" ELSE "SUCCESS")
  /\ UNCHANGED asked

FreeDone(w) ==
  /\ Serving(w, {"free"})
  /\ dropped[w]
  /\ Answer(w, "SUCCESS")
  /\ UNCHANGED <<names, asked>>

\* Only a name without a socket is reported as not found.
NotFound(w) ==
  /\ Serving(w, {"free", "accept", "use"})
  /\ asked[w].id \notin names
  /\ Answer(w, "NOT_FOUND")
  /\ UNCHANGED <<names, asked>>

Fail(w) ==
  /\ Serving(w, {"new", "accept", "use"})
  /\ \E code \in {"NETWORK_ERROR", "OUT_OF_MEMORY", "INTERNAL_ERROR"} :
       Answer(w, code)
  /\ UNCHANGED <<names, asked>>

Report(w) ==
  /\ Serving(w, {"use", "list"})
  /\ asked[w].cmd = "use" => asked[w].id \in names
  /\ Answer(w, "SUCCESS")
  /\ UNCHANGED <<names, asked>>

\* exit gives up the sockets one by one.
Shut(w) ==
  /\ Serving(w, {"exit"})
  /\ \E n \in names : names' = names \ {n}
  /\ UNCHANGED <<asked, dropped, answer>>

Leave(w) ==
  /\ answer[w] # "none"
  /\ asked' = [asked EXCEPT ![w] = NoRequest]
  /\ answer' = [answer EXCEPT ![w] = "none"]
  /\ UNCHANGED <<names, dropped>>

Next ==
  \E w \in Worker :
    \/ Ask(w) \/ Drop(w) \/ Create(w) \/ FreeDone(w) \/ NotFound(w)
    \/ Fail(w) \/ Report(w) \/ Shut(w) \/ Leave(w)

Spec == Init /\ [][Next]_vars

=============================================================================
