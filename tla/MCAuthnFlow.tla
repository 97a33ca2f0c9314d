----------------------------- MODULE MCAuthnFlow -----------------------------
(* Instances of AuthnFlow for TLC. *)
EXTENDS AuthnFlow, TLC

CONSTANT AllBrowsers

(* One response, of any type, in two browsers, with everything that can go *)
(* wrong around it.                                                        *)
Replay ==
    [browsers |-> AllBrowsers, flows |-> 1, types |-> {"code", "id_token", "code id_token"},
     limit |-> 7, delete |-> FALSE, timeout |-> 3, slack |-> 1,
     events |-> {"agent", "rekey", "op", "cache", "lose", "logout"}, end |-> 5]

(* Three authentication requests from the tabs of a browser b, of which    *)
(* one may be outstanding at a time.                                       *)
Cookies(b, d) ==
    [browsers |-> {b}, flows |-> 3, types |-> {"id_token"}, limit |-> 1, delete |-> d,
     timeout |-> 1, slack |-> 0, events |-> {}, end |-> 2]

BothSettings == {Replay} \cup {Cookies(b, d) : b \in AllBrowsers, d \in BOOLEAN}

(* Two requests without a limit. *)
UnlimitedSettings ==
    {[Cookies(b, TRUE) EXCEPT !.flows = 2, !.limit = 0, !.end = 0] : b \in AllBrowsers}

(* Browsers and requests are each interchangeable. *)
Symmetric == Permutations(AllBrowsers) \cup Permutations(Requests)
=============================================================================
