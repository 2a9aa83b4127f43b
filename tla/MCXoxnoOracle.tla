--------------------------- MODULE MCXoxnoOracle ---------------------------
(***************************************************************************)
(* Small instances of the XOXNO oracle: a second has two package units,    *)
(* prices are small integers and a basis point is a tenth.  A behaviour    *)
(* plays one of four scenes: a quorum of signers, batches that post a feed *)
(* twice, an owner who moves the bounds, and a registry that comes and     *)
(* goes.                                                                   *)
(***************************************************************************)
EXTENDS XoxnoOracle, TLC

CONSTANTS s1, s2, s3, s4, s5, f1, f2, f3, a1, a2, a3

VARIABLE scene

Scenes ==
  [quorum   |-> [signers |-> {s1, s2, s3}, initial |-> {s1, s2, s3}, threshold |-> 2, resolution |-> 1,
                 history |-> 1, prices |-> {10, 11, 20}, stamps |-> {1, 4}, seconds |-> {}, spreads |-> {},
                 start |-> 2, end |-> 3, batch |-> 1, feeds |-> {f1}, assets |-> {a1}],
   repeat   |-> [signers |-> {s1, s2, s3}, initial |-> {s1, s2, s3}, threshold |-> 2, resolution |-> 0,
                 history |-> 1, prices |-> {10, 20}, stamps |-> {2}, seconds |-> {}, spreads |-> {},
                 start |-> 1, end |-> 1, batch |-> 2, feeds |-> {f1}, assets |-> {a1}],
   bounds   |-> [signers |-> {s4, s5}, initial |-> {s4}, threshold |-> 1, resolution |-> 1,
                 history |-> 2, prices |-> {0, 10, 21}, stamps |-> {3, 6}, seconds |-> 0..3, spreads |-> {0, 11},
                 start |-> 2, end |-> 3, batch |-> 1, feeds |-> {f1}, assets |-> {a1}],
   registry |-> [signers |-> {s4}, initial |-> {s4}, threshold |-> 1, resolution |-> 0,
                 history |-> 1, prices |-> {10}, stamps |-> {3}, seconds |-> {}, spreads |-> {},
                 start |-> 2, end |-> 2, batch |-> 2, feeds |-> {f1, f2, f3}, assets |-> {a1, a2, a3}]]

In(c) == INSTANCE XoxnoOracle WITH
  Signer <- c.signers, Feed <- c.feeds, Asset <- c.assets,
  InitialSigners <- c.initial, InitialThreshold <- c.threshold, InitialResolution <- c.resolution,
  MAX_HISTORY_LEN <- c.history, Prices <- c.prices, Stamps <- c.stamps, Seconds <- c.seconds,
  Spreads <- c.spreads, StartTime <- c.start, MaxTime <- c.end, MaxBatch <- c.batch

MCInit == \E name \in DOMAIN Scenes : scene = name /\ In(Scenes[name])!Init

\* The registry stays as it is once the feed is listed, or the bounds do.
MCNext ==
  \E name \in DOMAIN Scenes :
    /\ scene = name
    /\ \/ In(Scenes[name])!SignerNext
       \/ In(Scenes[name])!Tick
       \/ (scene = "registry" \/ reg.mapping = <<>>) /\ In(Scenes[name])!RegistryNext
       \/ scene # "registry" /\ In(Scenes[name])!ConfigNext
    /\ UNCHANGED scene

MCSpec == MCInit /\ [][MCNext]_<<vars, scene>>

SignerSymmetry == Permutations({s1, s2, s3})
=============================================================================
