--------------------------- MODULE MCSessionStore ---------------------------
(* Instances of SessionStore for TLC. *)
EXTENDS SessionStore, TLC

CONSTANTS AllRequests, AllBrowsers

AllOperations == {"access", "login", "logout", "front", "back", "revoke"}

(* Two requests at the same time, of a browser b and of the OP. *)
Race(b) ==
    [requests |-> AllRequests, browsers |-> {b}, sids |-> {TRUE, FALSE},
     operations |-> {"access", "login", "logout", "back"}, faults |-> {"set"},
     interval |-> 1, duration |-> 1, end |-> 0, logins |-> MaxId]

(* The requests of two browsers one after the other, while time passes. *)
Sequence(r) ==
    [requests |-> {r}, browsers |-> AllBrowsers, sids |-> {TRUE}, operations |-> AllOperations,
     faults |-> {"refresh"}, interval |-> 2, duration |-> 2, end |-> 2, logins |-> MaxId]

(* One session over a long time, with a cache that loses entries. *)
Long(r, b) ==
    [requests |-> {r}, browsers |-> {b}, sids |-> {TRUE},
     operations |-> {"access", "login", "logout", "back", "revoke"}, faults |-> {"get", "evict", "refresh"},
     interval |-> 10, duration |-> 13, end |-> 14, logins |-> 1]

(* The same over a short time, where everything happens and anything but   *)
(* the storing of a session fails.                                         *)
Short(r, b) ==
    [Long(r, b) EXCEPT !.operations = AllOperations, !.faults = @ \cup {"index"},
                       !.interval = 2, !.duration = 3, !.end = 3]

AllSettings ==
    {Race(b) : b \in AllBrowsers} \cup {Sequence(r) : r \in AllRequests}
      \cup UNION {{Long(r, b), Short(r, b)} : r \in AllRequests, b \in AllBrowsers}

(* Logins without a sid, and logouts. *)
SublessSettings ==
    {[Sequence(r) EXCEPT !.sids = {FALSE}, !.operations = {"login", "logout"}, !.faults = {},
                       !.interval = 1, !.duration = 1, !.end = 0] : r \in AllRequests}

(* Browsers, users and requests are each interchangeable. *)
Symmetric == Permutations(AllBrowsers) \cup Permutations(Users) \cup Permutations(AllRequests)
=============================================================================
