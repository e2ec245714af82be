------------------------------- MODULE MCRelease -------------------------------
(* An instance of Release for TLC.                                         *)
EXTENDS Release

S(d, t, a, f) == [day |-> d, time |-> t, arch |-> a, flavor |-> f]
Mirror(s, i, g, o, n) == [stage3 |-> s, images |-> i, gone |-> g, old |-> o, new |-> n]

Ours == {S(2, 1, "ours", ""), S(2, 2, "ours", "-openrc"), S(3, 1, "other", ""), S(3, 2, "ours", "-other")}

MCMirrors == { Mirror(Ours, {1, 2}, FALSE, {1, 2, 3}, {}),
               Mirror(Ours \cup {S(2, 0, "ours", ""), S(3, 1, "ours", "")}, {3}, TRUE, {}, {0, 2}),
               Mirror({S(3, 0, "ours", ""), S(2, 1, "ours", "")}, {}, FALSE, {3}, {3}),
               Mirror({S(1, 1, "ours", ""), S(1, 2, "ours", "")}, {0}, TRUE, {}, {1}),
               Mirror({S(3, 1, "other", "")}, {1}, TRUE, {}, {}),
               \* The first and the second one after a synchronisation that adds and removes.
               Mirror({S(1, 1, "ours", ""), S(2, 2, "ours", "-openrc"), S(3, 1, "ours", "")},
                      {2, 3}, FALSE, {2, 3}, {}),
               Mirror({S(2, 0, "ours", ""), S(3, 1, "ours", ""), S(3, 2, "ours", "")},
                      {3}, TRUE, {}, {2, 3}) }

MCRequests == [distro: {"gentoo"}, stage3: {2, Latest}, snapshot: {2, Latest}, image: {Latest}]
              \cup [distro: {"arch"}, stage3: {Latest}, snapshot: {Latest}, image: {1, Latest}]

Stage3(d, t, f) == [kind |-> "stage3", name |-> [day |-> d, time |-> t, flavor |-> f]]

MCCaches == { {}, {[kind |-> "snapshot", name |-> 3], Stage3(2, 2, "-openrc"), Stage3(3, None, "")} }
=============================================================================
