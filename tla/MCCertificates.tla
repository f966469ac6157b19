--------------------------- MODULE MCCertificates ---------------------------
(* One managed directory and one that cherrywafctl writes to, two          *)
(* certificates with a key each, two listener addresses.  One virtual host *)
(* has a second domain, which only one of the certificates covers.         *)
EXTENDS Certificates, TLC

CONSTANTS d1, d2, c1, c2, k1, k2, l1, l2, n1, n2, n3

Keys == c1 :> k1 @@ c2 :> k2

Covered == c1 :> {n1, n2, n3} @@ c2 :> {n1, n2}

Slugs == d1 :> n1 @@ d2 :> n2

Conf(use1, domains1, listen) ==
    [use |-> d1 :> use1 @@ d2 :> "enabled", domains |-> d1 :> domains1 @@ d2 :> {n2}, listen |-> listen]

Candidates == {Conf("enabled", {n1, n3}, l1), Conf("disabled", {n1}, l1),
               Conf("no", {}, l1), Conf("enabled", {n1}, l2)}
=============================================================================
