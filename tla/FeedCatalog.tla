---------------------------- MODULE FeedCatalog ----------------------------
(***************************************************************************)
(* What the registry of the XOXNO oracle promises: a set of known feeds,   *)
(* and a one-to-one naming of some of them by assets.  How the contract    *)
(* lays the two out in ledger entries is in XoxnoOracle.                   *)
(***************************************************************************)
EXTENDS Functions

CONSTANTS Feed, Asset

VARIABLES
  known,     \* the registered feeds
  feedOf     \* asset -> the feed it names

Register(f) == f \notin known /\ known' = known \cup {f} /\ UNCHANGED feedOf

Map(f, a) ==
  /\ a \notin DOMAIN feedOf /\ f \notin Range(feedOf)
  /\ known' = known \cup {f}
  /\ feedOf' = [b \in DOMAIN feedOf \cup {a} |-> IF b = a THEN f ELSE feedOf[b]]

Drop(f) ==
  /\ f \in known
  /\ known' = known \ {f}
  /\ feedOf' = RestrictValues(feedOf, LAMBDA g : g # f)

CatalogInit == known = {} /\ feedOf = <<>>

CatalogNext == \E f \in Feed : Register(f) \/ Drop(f) \/ \E a \in Asset : Map(f, a)

CatalogSpec == CatalogInit /\ [][CatalogNext]_<<known, feedOf>>
=============================================================================
