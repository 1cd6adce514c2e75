------------------------------ MODULE MCLaunch ------------------------------
(* Launch for TLC: two launches start servers, two are clients; the lines  *)
(* cover a takeover of an ID, both IDs, a thread count the system cannot   *)
(* provide, and -c after -n.                                               *)
EXTENDS Launch

CONSTANTS l1, l2, l3, l4, i1, i2

MCWords == {OptId(None), OptId(i1), OptId(i2), OptNew, OptThreads(None),
            OptThreads(0), OptThreads(3), OptCommand, Number(1), Plain("list")}

NewServer(i) == <<OptId(i), OptNew>>
Client(i, command) == <<OptId(i), OptCommand, Plain(command)>>

MCCommandLines ==
  l1 :> {NewServer(i1), NewServer(i1) \o <<OptThreads(3)>>,
         NewServer(i1) \o <<OptThreads(0)>>, <<OptNew>>} @@
  l2 :> {NewServer(i1), NewServer(i2),
         NewServer(i1) \o <<OptCommand, Plain("list")>>} @@
  l3 :> {Client(i1, "list"), Client(i1, "exit")} @@
  l4 :> {Client(i1, "list"), Client(i2, "exit")}
=============================================================================
