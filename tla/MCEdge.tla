------------------------------- MODULE MCEdge -------------------------------
(* Two instances; who is served where, and what overlaps with what. *)
EXTENDS Edge, TLC

CONSTANTS r1, r2, r3, a1, a2, a3, v1, v2, s1, s2, e1, e2, e3, e4

BodyOf == r1 :> "a" @@ r2 :> "a" @@ r3 :> "b"
ServedAt == r1 :> "i1" @@ r2 :> "i1" @@ r3 :> "i2"
DeskOf == a1 :> "i1" @@ a2 :> "i2" @@ a3 :> "i2" @@ v1 :> "i1" @@ v2 :> "i2"
GigsOf == <<"g1", "g1", "g2">>
ReplicaOf == s1 :> "i1" @@ s2 :> "i2"
SiteOf == e1 :> "i1" @@ e2 :> "i2" @@ e3 :> "i2" @@ e4 :> "i1"
HandlerOf == <<"i1", "i1", "i1", "i2">>
PartiesOf == <<<<"a", "b">>, <<"b", "a">>, <<"a", "a">>, <<"c", "b">>>>
DisputesOf == <<1, 2, 1, 3>>
KeysOf == <<{"ip", "wallet"}, {"ip"}, {"ip"}, {"ip"}>>
TierPoints == <<2, 1, 1, 1>>
Policies == <<"unchecked", "unavailable", "unavailable", "unavailable">>
Senders == <<"a", "b", "a", "a">>
Named == <<"a", "a", "b", "a">>
PlaceOf == "q1" :> "i1" @@ "q2" :> "i2" @@ "c1" :> "i1" @@ "c2" :> "i1"
=============================================================================
