------------------------- MODULE XoxnoOracleProofs -------------------------
(***************************************************************************)
(* XoxnoOracle.tla for every set of signers, feeds and assets: the         *)
(* invariant of the submissions, bounds and histories, the prices that a   *)
(* minority of signers cannot set, and what the reads return.              *)
(***************************************************************************)
EXTENDS XoxnoFeedProofs

-----------------------------------------------------------------------------
(* The inductive invariant, and what a step may do to an aggregate.         *)

BoundsOf(c) ==
  /\ 1 <= c.threshold /\ c.threshold <= Cardinality(c.signers)
  /\ MIN_SUBMISSION_AGE_SECONDS <= c.maxAge /\ c.maxAge <= c.maxStale
  /\ MAX_FUTURE_SKEW_SECONDS < MaxRelativeSkew(c)

\* Under the types, the registry and the bounds: who owns the submissions, and
\* histories in the order of their writes.
OInv ==
  /\ now \in Nat /\ config \in Config
  /\ signerFeeds \in [Signer -> SUBSET Feed] /\ feeds \in [Feed -> Record]
  /\ RegistryOK(reg) /\ BoundsOrdered /\ SubmissionsOwned
  /\ \A f \in Feed : HistoryOK(feeds[f], now * MS_PER_SECOND)

\* A feed's aggregate stays, goes, or is the median of a quorum.
AggregatesSound ==
  \A f \in Feed : \/ feeds'[f].aggregate \in {feeds[f].aggregate, None}
                  \/ now' = now /\ Supported(config', feeds'[f])

\* Storing a submission, or forgetting one, changes nothing else of a record.
LEMMA StoreKept ==
  ASSUME NEW rec \in Record, NEW s \in Signer, NEW x \in Submission \cup {None}, NEW t,
         HistoryOK(rec, t)
  PROVE  LET q == [rec EXCEPT !.latest[s] = x]
         IN  q \in Record /\ HistoryOK(q, t) /\ q.latest = [rec.latest EXCEPT ![s] = x]
<1> DEFINE q == [rec EXCEPT !.latest[s] = x]
           l == [rec.latest EXCEPT ![s] = x]
<1>1. rec.latest \in [Signer -> Submission \cup {None}] /\ rec = [latest |-> rec.latest,
        aggregate |-> rec.aggregate, history |-> rec.history]
  BY DEF Record
<1>2. l \in [Signer -> Submission \cup {None}]
  BY <1>1
<1>3. q = [rec EXCEPT !.latest = l]
  OBVIOUS
<1> HIDE DEF l, q
<1>4. q \in Record /\ q.latest = l /\ q.aggregate = rec.aggregate /\ q.history = rec.history
  BY <1>2, <1>3 DEF Record
<1> QED
  BY <1>4 DEF q, l, HistoryOK

\* A new configuration with at least the old signers.
LEMMA Configured ==
  ASSUME OInv, NEW c \in Config, BoundsOf(c), config.signers \subseteq c.signers, Configure(c)
  PROVE  OInv' /\ AggregatesSound
<1>1. config' = c /\ now' = now /\ signerFeeds' = signerFeeds /\ feeds' = feeds /\ reg' = reg
  BY DEF Configure
<1>2. BoundsOrdered'
  BY <1>1 DEF BoundsOrdered, BoundsOf, MaxRelativeSkew, Lesser
<1>3. SubmissionsOwned'
  BY <1>1 DEF OInv, SubmissionsOwned, KnownFeed
<1>4. RegistryOK(reg')
  BY <1>1 DEF OInv
<1>5. \A f \in Feed : HistoryOK(feeds'[f], now' * MS_PER_SECOND)
  BY <1>1 DEF OInv
<1> QED
  BY <1>1, <1>2, <1>3, <1>4, <1>5 DEF OInv, AggregatesSound

\* add_signer keeps the threshold reachable.
LEMMA SignerAdded ==
  ASSUME OInv, NEW s \in Signer, AddSigner(s)
  PROVE  OInv' /\ AggregatesSound
<1> DEFINE c == [config EXCEPT !.signers = @ \cup {s}]
<1>1. Configure(c)
  BY DEF AddSigner
<1>2. c \in Config /\ c.signers = config.signers \cup {s} /\ c.threshold = config.threshold
      /\ c.maxAge = config.maxAge /\ c.maxStale = config.maxStale /\ c.maxSkew = config.maxSkew
  BY DEF OInv, Config
<1> HIDE DEF c
<1>3. s \notin config.signers /\ config.signers \in SUBSET Signer /\ config.threshold \in Nat
  BY DEF AddSigner, OInv, Config
<1>4. IsFiniteSet(config.signers)
  BY <1>3, ConstantsAreSound, FS_Subset
<1>5. Cardinality(c.signers) = Cardinality(config.signers) + 1 /\ Cardinality(config.signers) \in Nat
  BY <1>2, <1>3, <1>4, FS_AddElement, FS_CardinalityType
<1>6. config.threshold <= Cardinality(config.signers)
  BY DEF OInv, BoundsOrdered
<1>7. c.threshold <= Cardinality(c.signers)
  BY <1>2, <1>3, <1>5, <1>6
<1>8. BoundsOf(c)
  BY <1>2, <1>7 DEF OInv, BoundsOrdered, BoundsOf, MaxRelativeSkew
<1> QED
  BY <1>1, <1>2, <1>8, Configured

\* set_threshold keeps it reachable.
LEMMA ThresholdSet ==
  ASSUME OInv, NEW n \in Nat, SetThreshold(n)
  PROVE  OInv' /\ AggregatesSound
<1> DEFINE c == [config EXCEPT !.threshold = n]
<1>1. Configure(c) /\ n # 0 /\ n <= Cardinality(config.signers)
  BY DEF SetThreshold
<1>2. c \in Config /\ c.signers = config.signers /\ c.threshold = n
      /\ c.maxAge = config.maxAge /\ c.maxStale = config.maxStale /\ c.maxSkew = config.maxSkew
  BY <1>1 DEF OInv, Config
<1> HIDE DEF c
<1>3. BoundsOf(c)
  BY <1>1, <1>2 DEF OInv, BoundsOrdered, BoundsOf, MaxRelativeSkew
<1> QED
  BY <1>1, <1>2, <1>3, Configured

\* Each setter of a bound leaves the bounds in order.
LEMMA SecondsSet ==
  ASSUME OInv, NEW n \in Nat,
         \/ SetMaxStaleSeconds(n) \/ SetMaxSubmissionAgeSeconds(n)
         \/ SetMaxRelativeSkewSeconds(n) \/ SetResolution(n) \/ SetMaxClusterSpreadBps(n)
  PROVE  OInv' /\ AggregatesSound
<1>0. /\ config \in Config /\ BoundsOf(config) /\ MAX_FUTURE_SKEW_SECONDS \in Nat
      /\ config.maxAge \in Nat /\ config.maxStale \in Nat /\ config.maxSkew \in Nat
  BY ConstantsAreSound DEF OInv, BoundsOrdered, BoundsOf, Config
<1>1. ASSUME NEW c \in Config, Configure(c), c.signers = config.signers,
             c.threshold = config.threshold,
             MIN_SUBMISSION_AGE_SECONDS <= c.maxAge, c.maxAge <= c.maxStale,
             MAX_FUTURE_SKEW_SECONDS < c.maxSkew, MAX_FUTURE_SKEW_SECONDS < c.maxAge
      PROVE  OInv' /\ AggregatesSound
  <2>1. BoundsOf(c)
    BY <1>0, <1>1 DEF BoundsOf, MaxRelativeSkew, Lesser
  <2> QED
    BY <1>1, <2>1, Configured
<1>2. MAX_FUTURE_SKEW_SECONDS < config.maxSkew /\ MAX_FUTURE_SKEW_SECONDS < config.maxAge
      /\ MIN_SUBMISSION_AGE_SECONDS <= config.maxAge /\ config.maxAge <= config.maxStale
  BY <1>0 DEF BoundsOf, MaxRelativeSkew, Lesser, MIN_SUBMISSION_AGE_SECONDS
<1>3. CASE SetMaxStaleSeconds(n)
  <2> DEFINE c == [config EXCEPT !.maxStale = n]
  <2>1. Configure(c) /\ n >= config.maxAge
    BY <1>3 DEF SetMaxStaleSeconds
  <2>2. c \in Config /\ c.signers = config.signers /\ c.threshold = config.threshold
        /\ c.maxAge = config.maxAge /\ c.maxStale = n /\ c.maxSkew = config.maxSkew
    BY <1>0 DEF Config
  <2> HIDE DEF c
  <2> QED
    BY <1>0, <1>1, <1>2, <2>1, <2>2, Zenon
<1>4. CASE SetMaxSubmissionAgeSeconds(n)
  <2> DEFINE c == [config EXCEPT !.maxAge = n]
  <2>1. Configure(c) /\ n >= MIN_SUBMISSION_AGE_SECONDS /\ n <= config.maxStale
    BY <1>4 DEF SetMaxSubmissionAgeSeconds
  <2>2. c \in Config /\ c.signers = config.signers /\ c.threshold = config.threshold
        /\ c.maxAge = n /\ c.maxStale = config.maxStale /\ c.maxSkew = config.maxSkew
    BY <1>0 DEF Config
  <2> HIDE DEF c
  <2>3. MAX_FUTURE_SKEW_SECONDS < n /\ MIN_SUBMISSION_AGE_SECONDS <= n
    BY <1>0, <2>1 DEF MIN_SUBMISSION_AGE_SECONDS
  <2> QED
    BY <1>1, <1>2, <2>1, <2>2, <2>3, Zenon
<1>5. CASE SetMaxRelativeSkewSeconds(n)
  <2> DEFINE c == [config EXCEPT !.maxSkew = n]
  <2>1. Configure(c) /\ n > MAX_FUTURE_SKEW_SECONDS
    BY <1>5 DEF SetMaxRelativeSkewSeconds
  <2>2. c \in Config /\ c.signers = config.signers /\ c.threshold = config.threshold
        /\ c.maxAge = config.maxAge /\ c.maxStale = config.maxStale /\ c.maxSkew = n
    BY <1>0 DEF Config
  <2> HIDE DEF c
  <2> QED
    BY <1>0, <1>1, <1>2, <2>1, <2>2, Zenon
<1>6. CASE SetResolution(n)
  <2> DEFINE c == [config EXCEPT !.resolution = n]
  <2>1. Configure(c)
    BY <1>6 DEF SetResolution
  <2>2. c \in Config /\ c.signers = config.signers /\ c.threshold = config.threshold
        /\ c.maxAge = config.maxAge /\ c.maxStale = config.maxStale /\ c.maxSkew = config.maxSkew
    BY <1>0, Zenon DEF Config
  <2> HIDE DEF c
  <2> QED
    BY <1>1, <1>2, <2>1, <2>2, Zenon
<1>7. CASE SetMaxClusterSpreadBps(n)
  <2> DEFINE c == [config EXCEPT !.spread = n]
  <2>1. Configure(c)
    BY <1>7 DEF SetMaxClusterSpreadBps
  <2>2. c \in Config /\ c.signers = config.signers /\ c.threshold = config.threshold
        /\ c.maxAge = config.maxAge /\ c.maxStale = config.maxStale /\ c.maxSkew = config.maxSkew
    BY <1>0 DEF Config
  <2> HIDE DEF c
  <2> QED
    BY <1>1, <1>2, <2>1, <2>2
<1> QED
  BY <1>3, <1>4, <1>5, <1>6, <1>7, Zenon

\* A signer's entries, one by one, each followed by a recomputation.
LEMMA SubmissionsTaken ==
  ASSUME OInv, NEW s \in config.signers, NEW ts \in Nat, NEW n \in Nat,
         NEW entries \in [1..n -> Entry],
         \A i \in 1..n : KnownFeed(entries[i].feed) /\ ValidatePrice(entries[i].price),
         SubmitEntries(s, entries, ts)
  PROVE  OInv' /\ AggregatesSound
<1> DEFINE t == now * MS_PER_SECOND
           Posted == {entries[i].feed : i \in 1..n}
           Good(m, f) ==
             /\ HistoryOK(m[f], t) /\ (m[f] = feeds[f] \/ Supported(config, m[f]))
             /\ \A q \in Signer : m[f].latest[q] # None
                                    => feeds[f].latest[q] # None \/ (q = s /\ f \in Posted)
           V == {m \in [Feed -> Record] : \A f \in Feed : Good(m, f)}
<1>0. /\ now \in Nat /\ config \in Config /\ s \in Signer /\ feeds \in [Feed -> Record]
      /\ DOMAIN entries = 1..n
  BY DEF OInv, Config
<1>1. feeds \in V
  BY Zenon DEF OInv
<1>2. ASSUME NEW i \in 1..n, NEW m \in V PROVE Post(s, entries[i], ts, m) \in V
  <2>1. PICK e \in Entry : e = entries[i]
    OBVIOUS
  <2>2. e.feed \in Feed /\ e.feed \in Posted /\ e.price \in Nat
    BY <2>1, ConstantsAreSound DEF Entry, ValidatePrice
  <2>3. PICK f \in Feed : f = e.feed
    BY <2>2
  <2>4. m \in [Feed -> Record] /\ m[f] \in Record /\ \A g \in Feed : Good(m, g)
    OBVIOUS
  <2> DEFINE x == [price |-> e.price, ts |-> ts]
             b == [m[f] EXCEPT !.latest[s] = x]
             r == RecomputeAggregate(config, b, "Retain")
  <2>5. x \in Submission
    BY <2>2 DEF Submission
  <2>6. Post(s, entries[i], ts, m) = [m EXCEPT ![f] = r]
    BY <2>1, <2>3, <2>4 DEF Post, StoreSubmission
  <2> HIDE DEF x
  <2>7. b \in Record /\ HistoryOK(b, t) /\ b.latest = [m[f].latest EXCEPT ![s] = x]
    BY <1>0, <2>4, <2>5, StoreKept, Zenon
  <2>8. m[f].latest \in [Signer -> Submission \cup {None}]
    BY <2>4, Zenon DEF Record
  <2> HIDE DEF b
  <2>9. r \in Record /\ r.latest = b.latest /\ HistoryOK(r, t) /\ Supported(config, r)
    BY <1>0, <2>7, RecomputeSound
  <2> HIDE DEF r
  <2>10. PICK w : w = [m EXCEPT ![f] = r]
    BY Zenon
  <2>11. w \in [Feed -> Record] /\ w[f] = r /\ \A g \in Feed : g # f => w[g] = m[g]
    BY <2>4, <2>9, <2>10, Zenon
  <2>12. \A q \in Signer : w[f].latest[q] # None => m[f].latest[q] # None \/ q = s
    BY <2>7, <2>8, <2>9, <2>11, Zenon
  <2>13. Good(w, f)
    BY <2>2, <2>3, <2>4, <2>9, <2>11, <2>12, Zenon
  <2>14. \A g \in Feed : g # f => Good(w, g)
    BY <2>4, <2>11
  <2> QED
    BY <2>6, <2>10, <2>11, <2>13, <2>14, ZenonT(30)
<1> HIDE DEF V
<1>3. feeds' \in V
  BY <1>0, <1>1, <1>2, BatchKeeps, Zenon
<1>4. feeds' \in [Feed -> Record] /\ \A f \in Feed : Good(feeds', f)
  BY <1>3 DEF V
<1>5. /\ now' = now /\ config' = config /\ reg' = reg
      /\ signerFeeds' = [signerFeeds EXCEPT ![s] = @ \cup Posted]
  BY <1>0, Zenon DEF SubmitEntries
<1>6. \A f \in Posted : f \in Feed /\ KnownFeed(f)
  BY DEF Entry
<1> HIDE DEF Posted
<1>7. signerFeeds' \in [Signer -> SUBSET Feed] /\ Posted \subseteq signerFeeds'[s]
      /\ \A q \in Signer : signerFeeds[q] \subseteq signerFeeds'[q]
  BY <1>0, <1>5, <1>6, Zenon DEF OInv
<1>8. SubmissionsOwned'
  <2> SUFFICES ASSUME NEW f \in Feed, NEW q \in Signer, feeds'[f].latest[q] # None
               PROVE  q \in config'.signers /\ KnownFeed(f)' /\ f \in signerFeeds'[q]
    BY <1>4, <1>7, Zenon DEF SubmissionsOwned
  <2>1. feeds[f].latest[q] # None \/ (q = s /\ f \in Posted)
    BY <1>4
  <2>2. CASE feeds[f].latest[q] # None
    <3>1. q \in config.signers /\ KnownFeed(f) /\ f \in signerFeeds[q]
      BY <2>2 DEF OInv, SubmissionsOwned
    <3> QED
      BY <3>1, <1>5, <1>7, Zenon DEF KnownFeed
  <2>3. CASE q = s /\ f \in Posted
    BY <2>3, <1>5, <1>6, <1>7, Zenon DEF KnownFeed
  <2> QED
    BY <2>1, <2>2, <2>3, Zenon
<1>9. BoundsOrdered' /\ RegistryOK(reg')
  BY <1>5 DEF OInv, BoundsOrdered, MaxRelativeSkew
<1>10. \A f \in Feed : HistoryOK(feeds'[f], now' * MS_PER_SECOND)
  BY <1>4, <1>5, Zenon
<1>11. AggregatesSound
  BY <1>4, <1>5 DEF AggregatesSound
<1> QED
  BY <1>0, <1>4, <1>5, <1>7, <1>8, <1>9, <1>10, <1>11, Zenon DEF OInv

\* recompute_feeds.
LEMMA FeedsRecomputed ==
  ASSUME OInv, NEW F \in SUBSET Feed, RecomputeFeeds(F)
  PROVE  OInv' /\ AggregatesSound
<1>0. /\ now \in Nat /\ config \in Config /\ feeds \in [Feed -> Record]
      /\ \A f \in Feed : HistoryOK(feeds[f], now * MS_PER_SECOND)
  BY DEF OInv
<1>1. /\ now' = now /\ config' = config /\ reg' = reg /\ signerFeeds' = signerFeeds
      /\ feeds' = [f \in Feed |-> IF f \in F THEN RecomputeAggregate(config, feeds[f], "Clear")
                                             ELSE feeds[f]]
  BY DEF RecomputeFeeds
<1>2. ASSUME NEW f \in Feed
      PROVE  /\ feeds'[f] \in Record /\ feeds'[f].latest = feeds[f].latest
             /\ HistoryOK(feeds'[f], now * MS_PER_SECOND)
             /\ feeds'[f] = feeds[f] \/ Supported(config, feeds'[f])
  <2>1. PICK q : q = RecomputeAggregate(config, feeds[f], "Clear")
    OBVIOUS
  <2>2. /\ q \in Record /\ q.latest = feeds[f].latest
        /\ HistoryOK(q, now * MS_PER_SECOND) /\ Supported(config, q)
    BY <1>0, <2>1, RecomputeSound, Zenon
  <2>3. feeds'[f] = q \/ feeds'[f] = feeds[f]
    BY <1>1, <2>1
  <2> QED
    BY <1>0, <2>2, <2>3
<1>3. feeds' \in [Feed -> Record]
  BY <1>1, <1>2, Zenon
<1>4. SubmissionsOwned'
  BY <1>0, <1>1, <1>2, <1>3, Zenon DEF OInv, SubmissionsOwned, KnownFeed
<1>5. BoundsOrdered' /\ RegistryOK(reg')
  BY <1>1 DEF OInv, BoundsOrdered, MaxRelativeSkew
<1>6. \A f \in Feed : HistoryOK(feeds'[f], now' * MS_PER_SECOND)
  BY <1>1, <1>2
<1>7. AggregatesSound
  BY <1>1, <1>2, Zenon DEF AggregatesSound
<1> QED
  BY <1>0, <1>1, <1>3, <1>4, <1>5, <1>6, <1>7, Zenon DEF OInv

\* remove_signer forgets the signer in every feed of the signer's list, which
\* names every feed that holds a submission of theirs.
LEMMA SignerRemoved ==
  ASSUME OInv, NEW s \in Signer, RemoveSigner(s)
  PROVE  OInv' /\ AggregatesSound
<1> DEFINE c == [config EXCEPT !.signers = @ \ {s}]
           t == now * MS_PER_SECOND
<1>0. /\ now \in Nat /\ config \in Config /\ feeds \in [Feed -> Record]
      /\ signerFeeds \in [Signer -> SUBSET Feed] /\ \A f \in Feed : HistoryOK(feeds[f], t)
  BY DEF OInv
<1>1. /\ now' = now /\ config' = c /\ reg' = reg /\ signerFeeds' = [signerFeeds EXCEPT ![s] = {}]
      /\ feeds' = [f \in Feed |-> IF f \in signerFeeds[s] THEN Forget(s, c, feeds[f]) ELSE feeds[f]]
      /\ s \in config.signers /\ Cardinality(config.signers) - 1 >= config.threshold
  BY DEF RemoveSigner, RemoveSignerTo
<1>2. c \in Config /\ c.signers = config.signers \ {s} /\ c.threshold = config.threshold
      /\ c.maxAge = config.maxAge /\ c.maxStale = config.maxStale /\ c.maxSkew = config.maxSkew
  BY <1>0, Zenon DEF Config
<1> HIDE DEF c
<1>3. BoundsOrdered'
  <2>1. config.signers \in SUBSET Signer /\ config.threshold \in Nat
    BY <1>0 DEF Config
  <2>2. IsFiniteSet(config.signers)
    BY <2>1, ConstantsAreSound, FS_Subset
  <2>3. Cardinality(c.signers) = Cardinality(config.signers) - 1
    BY <1>1, <1>2, <2>2, FS_RemoveElement, Zenon
  <2> QED
    BY <1>1, <1>2, <2>3, Zenon DEF OInv, BoundsOrdered, MaxRelativeSkew
<1>4. ASSUME NEW f \in Feed
      PROVE  /\ feeds'[f] \in Record /\ HistoryOK(feeds'[f], t)
             /\ feeds'[f] = feeds[f] \/ Supported(c, feeds'[f])
             /\ \A q \in Signer : feeds'[f].latest[q] # None => q # s /\ feeds[f].latest[q] # None
  <2>0. feeds[f] \in Record /\ HistoryOK(feeds[f], t)
        /\ feeds[f].latest \in [Signer -> Submission \cup {None}]
    BY <1>0 DEF Record
  <2>1. CASE f \in signerFeeds[s]
    <3> DEFINE b == [feeds[f] EXCEPT !.latest[s] = None]
    <3>1. PICK r : r = RecomputeAggregate(c, b, "Clear")
      OBVIOUS
    <3>2. feeds'[f] = r
      BY <1>1, <2>1, <3>1, Zenon DEF Forget
    <3>3. b \in Record /\ HistoryOK(b, t) /\ b.latest = [feeds[f].latest EXCEPT ![s] = None]
      BY <2>0, StoreKept, Zenon
    <3> HIDE DEF b
    <3>4. r \in Record /\ r.latest = b.latest /\ HistoryOK(r, t) /\ Supported(c, r)
      BY <1>0, <1>2, <3>1, <3>3, RecomputeSound, Zenon
    <3>5. \A q \in Signer : r.latest[q] # None => q # s /\ feeds[f].latest[q] # None
      BY <2>0, <3>3, <3>4, Zenon
    <3> QED
      BY <3>2, <3>4, <3>5
  <2>2. CASE f \notin signerFeeds[s]
    <3>1. feeds'[f] = feeds[f]
      BY <1>1, <2>2, Zenon
    <3>2. feeds[f].latest[s] = None
      BY <2>2, <1>0, Zenon DEF OInv, SubmissionsOwned
    <3> QED
      BY <2>0, <3>1, <3>2, Zenon
  <2> QED
    BY <2>1, <2>2, Zenon
<1>5. feeds' \in [Feed -> Record] /\ signerFeeds' \in [Signer -> SUBSET Feed]
  BY <1>0, <1>1, <1>4, Zenon
<1>6. SubmissionsOwned'
  <2> SUFFICES ASSUME NEW f \in Feed, NEW q \in Signer, feeds'[f].latest[q] # None
               PROVE  q \in config'.signers /\ KnownFeed(f)' /\ f \in signerFeeds'[q]
    BY <1>5, Zenon DEF SubmissionsOwned
  <2>1. q # s /\ feeds[f].latest[q] # None
    BY <1>4, Zenon
  <2>2. q \in config.signers /\ KnownFeed(f) /\ f \in signerFeeds[q]
    BY <2>1, <1>0, Zenon DEF OInv, SubmissionsOwned
  <2>3. signerFeeds'[q] = signerFeeds[q]
    BY <1>0, <1>1, <2>1, Zenon
  <2> QED
    BY <1>1, <1>2, <2>1, <2>2, <2>3, Zenon DEF KnownFeed
<1>7. RegistryOK(reg')
  BY <1>1, Zenon DEF OInv
<1>8. \A f \in Feed : HistoryOK(feeds'[f], now' * MS_PER_SECOND)
  BY <1>1, <1>4, Zenon
<1>9. AggregatesSound
  BY <1>1, <1>4, Zenon DEF AggregatesSound
<1> QED
  BY <1>0, <1>1, <1>2, <1>3, <1>5, <1>6, <1>7, <1>8, <1>9, Zenon DEF OInv

\* clear_feed_state leaves nothing of the feed: the submissions it does not
\* visit, of signers no longer registered, are not there.
LEMMA FeedCleared ==
  ASSUME OInv, NEW f \in Feed, NEW r, ClearFeedState(f, r), now' = now, config' = config,
         RegistryOK(reg'), Known(reg') = Known(reg) \ {f}
  PROVE  OInv' /\ AggregatesSound
<1> DEFINE t == now * MS_PER_SECOND
           z == ClearedFeed(config, feeds[f])
<1>0. /\ now \in Nat /\ config \in Config /\ feeds \in [Feed -> Record]
      /\ signerFeeds \in [Signer -> SUBSET Feed] /\ \A g \in Feed : HistoryOK(feeds[g], t)
      /\ RegistryOK(reg)
  BY DEF OInv
<1>1. /\ feeds' = [feeds EXCEPT ![f] = z]
      /\ signerFeeds' = [s \in Signer |-> IF s \in config.signers
                                            THEN signerFeeds[s] \ {f} ELSE signerFeeds[s]]
  BY <1>0, Zenon DEF ClearFeedState
<1>2. \A s \in Signer : s \notin config.signers => feeds[f].latest[s] = None
  BY <1>0 DEF OInv, SubmissionsOwned
<1>3. z = Blank
  <2>1. [s \in Signer |-> IF s \in config.signers THEN None ELSE feeds[f].latest[s]]
          = [s \in Signer |-> None]
    BY <1>2, Zenon
  <2> QED
    BY <2>1 DEF ClearedFeed, Blank
<1>4. z \in Record /\ HistoryOK(z, t) /\ z.aggregate = None /\ \A s \in Signer : z.latest[s] = None
  BY <1>3, ConstantsAreSound DEF Blank, Record, HistoryOK, WritesOrdered
<1> HIDE DEF z
<1>5. feeds' \in [Feed -> Record] /\ feeds'[f] = z /\ \A g \in Feed : g # f => feeds'[g] = feeds[g]
  BY <1>0, <1>1, <1>4, Zenon
<1>6. signerFeeds' \in [Signer -> SUBSET Feed]
      /\ \A s \in Signer : \A g \in signerFeeds[s] : g # f => g \in signerFeeds'[s]
  BY <1>0, <1>1, Zenon
<1>7. \A g \in Feed : KnownFeed(g) /\ g # f => KnownFeed(g)'
  BY <1>0 DEF KnownFeed, Known, RegistryOK, IndexOK
<1>8. SubmissionsOwned'
  <2> SUFFICES ASSUME NEW g \in Feed, NEW q \in Signer, feeds'[g].latest[q] # None
               PROVE  q \in config'.signers /\ KnownFeed(g)' /\ g \in signerFeeds'[q]
    BY <1>5, <1>6, Zenon DEF SubmissionsOwned
  <2>1. g # f /\ feeds[g].latest[q] # None
    BY <1>4, <1>5, Zenon
  <2>2. q \in config.signers /\ KnownFeed(g) /\ g \in signerFeeds[q]
    BY <2>1, <1>0, Zenon DEF OInv, SubmissionsOwned
  <2> QED
    BY <1>6, <1>7, <2>1, <2>2, Zenon
<1>9. BoundsOrdered'
  BY Zenon DEF OInv, BoundsOrdered, MaxRelativeSkew
<1>10. \A g \in Feed : HistoryOK(feeds'[g], now' * MS_PER_SECOND)
  BY <1>0, <1>4, <1>5, Zenon
<1>11. AggregatesSound
  BY <1>4, <1>5, Zenon DEF AggregatesSound
<1> QED
  BY <1>0, <1>5, <1>6, <1>8, <1>9, <1>10, <1>11, Zenon DEF OInv

\* register_feed and add_feed take no feed from the registry.
LEMMA RegistryGrown ==
  ASSUME OInv, UNCHANGED <<now, config, signerFeeds, feeds>>, RegistryOK(reg'),
         Known(reg) \subseteq Known(reg')
  PROVE  OInv' /\ AggregatesSound
<1>1. \A f \in Feed : KnownFeed(f) => KnownFeed(f)'
  BY DEF OInv, KnownFeed, Known, RegistryOK, IndexOK
<1>2. SubmissionsOwned'
  BY <1>1 DEF OInv, SubmissionsOwned
<1>3. BoundsOrdered'
  BY DEF OInv, BoundsOrdered, MaxRelativeSkew
<1>4. \A f \in Feed : HistoryOK(feeds'[f], now' * MS_PER_SECOND)
  BY DEF OInv
<1> QED
  BY <1>2, <1>3, <1>4, Zenon DEF OInv, AggregatesSound

\* Time leaves the histories behind.
LEMMA TimePasses ==
  ASSUME OInv, Tick
  PROVE  OInv' /\ AggregatesSound
<1>1. now' = now + 1 /\ config' = config /\ signerFeeds' = signerFeeds /\ feeds' = feeds
      /\ reg' = reg /\ now \in Nat
  BY DEF Tick, OInv
<1>2. now * MS_PER_SECOND \in Nat /\ now' * MS_PER_SECOND \in Nat
      /\ now * MS_PER_SECOND <= now' * MS_PER_SECOND
  <2>1. (now + 1) * MS_PER_SECOND = now * MS_PER_SECOND + MS_PER_SECOND
    BY <1>1, ConstantsAreSound
  <2>2. now * MS_PER_SECOND \in Nat
    BY <1>1, ConstantsAreSound
  <2> QED
    BY <1>1, <2>1, <2>2, ConstantsAreSound
<1>3. ASSUME NEW f \in Feed PROVE HistoryOK(feeds'[f], now' * MS_PER_SECOND)
  <2>1. HistoryOK(feeds[f], now * MS_PER_SECOND) /\ feeds[f].history \in Seq(Aggregate)
    BY DEF OInv, Record
  <2>2. \A i \in 1..Len(feeds[f].history) : feeds[f].history[i].write \in Nat
    <3>1. \A i \in 1..Len(feeds[f].history) : feeds[f].history[i] \in Aggregate
      BY <2>1
    <3> QED
      BY <3>1 DEF Aggregate
  <2>3. \A i \in 1..Len(feeds[f].history) : feeds[f].history[i].write <= now' * MS_PER_SECOND
    BY <1>2, <2>1, <2>2 DEF HistoryOK, WritesOrdered
  <2> QED
    BY <1>1, <2>1, <2>3, Zenon DEF HistoryOK, WritesOrdered
<1>4. SubmissionsOwned' /\ BoundsOrdered' /\ RegistryOK(reg')
  BY <1>1 DEF OInv, SubmissionsOwned, KnownFeed, BoundsOrdered, MaxRelativeSkew
<1> QED
  BY <1>1, <1>3, <1>4 DEF OInv, AggregatesSound

\* One step of the oracle.
LEMMA OracleStep ==
  ASSUME OInv, Next
  PROVE  OInv' /\ AggregatesSound
<1>0. /\ config \in Config /\ RegistryOK(reg) /\ RegistryOK(reg')
      /\ Prices \subseteq Int /\ Stamps \subseteq Nat /\ Seconds \subseteq Nat
      /\ Spreads \subseteq Nat
  BY RegistryStep, ConstantsAreSound, Zenon DEF OInv
<1>1. CASE SignerNext
  <2>1. PICK s \in Signer, ts \in Stamps :
          \/ \E f \in Feed, price \in Prices : SubmitPrice(s, f, price, ts)
          \/ \E n \in 2..MaxBatch : \E entries \in [1..n -> Entry] : SubmitPrices(s, entries, ts)
    BY <1>1 DEF SignerNext
  <2>2. ASSUME NEW f \in Feed, NEW price \in Prices, SubmitPrice(s, f, price, ts)
        PROVE  OInv' /\ AggregatesSound
    <3> DEFINE e == <<[feed |-> f, price |-> price]>>
    <3>1. e \in [1..1 -> Entry] /\ e[1].feed = f /\ e[1].price = price
      BY DEF Entry
    <3>2. s \in config.signers /\ KnownFeed(f) /\ ValidatePrice(price) /\ SubmitEntries(s, e, ts)
      BY <2>2 DEF SubmitPrice, RegisteredSigner
    <3> HIDE DEF e
    <3>3. \A i \in 1..1 : KnownFeed(e[i].feed) /\ ValidatePrice(e[i].price)
      BY <3>1, <3>2
    <3> QED
      BY <1>0, <3>1, <3>2, <3>3, SubmissionsTaken, Zenon
  <2>3. ASSUME NEW n \in 2..MaxBatch, NEW entries \in [1..n -> Entry], SubmitPrices(s, entries, ts)
        PROVE  OInv' /\ AggregatesSound
    <3>1. s \in config.signers /\ SubmitEntries(s, entries, ts) /\ n \in Nat
          /\ \A i \in 1..n : KnownFeed(entries[i].feed) /\ ValidatePrice(entries[i].price)
      BY <2>3, ConstantsAreSound DEF SubmitPrices, RegisteredSigner
    <3> QED
      BY <1>0, <3>1, SubmissionsTaken, Zenon
  <2> QED
    BY <2>1, <2>2, <2>3, Zenon
<1>2. CASE ConfigNext
  <2>1. ASSUME NEW s \in Signer, AddSigner(s) \/ RemoveSigner(s) PROVE OInv' /\ AggregatesSound
    BY <2>1, SignerAdded, SignerRemoved, Zenon
  <2>2. ASSUME NEW n \in 0..Cardinality(Signer), SetThreshold(n) PROVE OInv' /\ AggregatesSound
    <3>1. n \in Nat
      BY ConstantsAreSound, FS_CardinalityType
    <3> QED
      BY <2>2, <3>1, ThresholdSet, Zenon
  <2>3. ASSUME NEW n \in Nat,
               \/ SetMaxStaleSeconds(n) \/ SetMaxSubmissionAgeSeconds(n)
               \/ SetMaxRelativeSkewSeconds(n) \/ SetResolution(n) \/ SetMaxClusterSpreadBps(n)
        PROVE  OInv' /\ AggregatesSound
    BY <2>3, SecondsSet
  <2>4. ASSUME NEW F \in SUBSET Feed, RecomputeFeeds(F) PROVE OInv' /\ AggregatesSound
    BY <2>4, FeedsRecomputed
  <2> QED
    BY <1>0, <1>2, <2>1, <2>2, <2>3, <2>4, Zenon DEF ConfigNext
<1>3. CASE RegistryNext
  <2>1. ASSUME NEW f \in Feed, RegisterFeed(f) PROVE OInv' /\ AggregatesSound
    <3>1. reg' = EnsureKnownFeed(reg, f) /\ UNCHANGED <<now, config, signerFeeds, feeds>>
      BY <2>1 DEF RegisterFeed
    <3>2. Known(reg') = Known(reg) \cup {f}
      BY <1>0, <3>1, RegisterKept
    <3> QED
      BY <1>0, <3>1, <3>2, RegistryGrown, Zenon
  <2>2. ASSUME NEW f \in Feed, NEW a \in Asset, AddFeed(f, a) PROVE OInv' /\ AggregatesSound
    <3>1. /\ a \notin DOMAIN reg.mapping /\ f \notin DOMAIN reg.owner
          /\ reg' = [EnsureKnownFeed(MapFeed(reg, a, f), f) EXCEPT !.asset = IndexInsert(@, a)]
          /\ UNCHANGED <<now, config, signerFeeds, feeds>>
      BY <2>2 DEF AddFeed
    <3>2. Known(reg') = Known(reg) \cup {f}
      BY <1>0, <3>1, AddKept, Zenon
    <3> QED
      BY <1>0, <3>1, <3>2, RegistryGrown, Zenon
  <2>3. ASSUME NEW a \in Asset, RemoveFeed(a) PROVE OInv' /\ AggregatesSound
    <3>1. PICK f : f = reg.mapping[a]
      OBVIOUS
    <3>2. /\ a \in DOMAIN reg.mapping /\ now' = now /\ config' = config
          /\ ClearFeedState(f, RemoveFeedMapping(reg, a))
      BY <2>3, <3>1 DEF RemoveFeed
    <3>3. reg' = Cleared(RemoveFeedMapping(reg, a), f)
      BY <3>2, Zenon DEF ClearFeedState, Cleared
    <3>4. Known(reg') = Known(reg) \ {f}
      BY <1>0, <3>1, <3>2, <3>3, DropKept, Zenon
    <3>5. f \in Feed
      <4>1. f \in DOMAIN reg.feed.index
        BY <1>0, <3>1, <3>2, Zenon DEF RegistryOK, MappingOK
      <4> QED
        BY <1>0, <4>1 DEF RegistryOK, IndexOK, Range
    <3> QED
      BY <1>0, <3>2, <3>4, <3>5, FeedCleared, Zenon
  <2>4. ASSUME NEW f \in Feed, PurgeFeed(f) PROVE OInv' /\ AggregatesSound
    <3>1. now' = now /\ config' = config
      BY <2>4 DEF PurgeFeed
    <3>2. CASE f \in DOMAIN reg.owner
      <4>1. PICK a : a = reg.owner[f]
        BY Zenon
      <4>2. a \in DOMAIN reg.mapping /\ reg.mapping[a] = f
        BY <1>0, <3>2, <4>1, Zenon DEF RegistryOK, MappingOK
      <4>3. ClearFeedState(f, RemoveFeedMapping(reg, a))
        BY <2>4, <3>2, <4>1 DEF PurgeFeed
      <4>4. reg' = Cleared(RemoveFeedMapping(reg, a), f)
        BY <4>3 DEF ClearFeedState, Cleared
      <4>5. Known(reg') = Known(reg) \ {f}
        BY <1>0, <4>2, <4>4, DropKept, ZenonT(30)
      <4> QED
        BY <1>0, <3>1, <4>3, <4>5, FeedCleared, Zenon
    <3>3. CASE f \notin DOMAIN reg.owner
      <4>1. ClearFeedState(f, reg)
        BY <2>4, <3>3 DEF PurgeFeed
      <4>2. reg' = Cleared(reg, f)
        BY <4>1 DEF ClearFeedState, Cleared
      <4>3. Known(reg') = Known(reg) \ {f}
        BY <1>0, <3>3, <4>2, PurgeKept, Zenon
      <4> QED
        BY <1>0, <3>1, <4>1, <4>3, FeedCleared, Zenon
    <3> QED
      BY <3>2, <3>3
  <2> QED
    BY <1>3, <2>1, <2>2, <2>3, <2>4, Zenon DEF RegistryNext
<1>4. CASE Tick
  BY <1>4, TimePasses
<1> QED
  BY <1>1, <1>2, <1>3, <1>4, Zenon DEF Next

\* The constructor's state.
LEMMA OracleStart == Init => OInv
<1> SUFFICES ASSUME Init PROVE OInv
  OBVIOUS
<1>1. /\ now = StartTime /\ now \in Nat /\ signerFeeds = [s \in Signer |-> {}]
      /\ feeds = [f \in Feed |-> Blank]
  BY ConstantsAreSound, Zenon DEF Init
<1>2. /\ config.signers = InitialSigners /\ config.threshold = InitialThreshold
      /\ config.maxStale = DEFAULT_MAX_STALE_SECONDS
      /\ config.maxAge = DEFAULT_MAX_SUBMISSION_AGE_SECONDS
      /\ config.maxSkew = DEFAULT_MAX_SUBMISSION_AGE_SECONDS
  BY DEF Init
<1>3. /\ DEFAULT_MAX_SUBMISSION_AGE_SECONDS \in Nat /\ InitialThreshold \in Nat \ {0}
      /\ InitialThreshold <= Cardinality(InitialSigners)
  <2>1. IsFiniteSet(InitialSigners)
    BY ConstructorAccepts, ConstantsAreSound, FS_Subset
  <2>2. Cardinality(InitialSigners) \in Nat
    BY <2>1, FS_CardinalityType, Zenon
  <2> QED
    BY <2>2, ConstructorAccepts, ConstantsAreSound
<1>4. config \in Config
  BY <1>3, ConstructorAccepts, ConstantsAreSound, Zenon DEF Init, Config
<1>5. BoundsOrdered
  BY <1>2, <1>3, ConstantsAreSound
    DEF BoundsOrdered, MaxRelativeSkew, Lesser, MIN_SUBMISSION_AGE_SECONDS
<1>6. Blank \in Record /\ HistoryOK(Blank, now * MS_PER_SECOND) /\ \A s \in Signer : Blank.latest[s] = None
  BY ConstantsAreSound DEF Blank, Record, HistoryOK, WritesOrdered
<1>7. SubmissionsOwned
  BY <1>1, <1>6 DEF SubmissionsOwned
<1>8. RegistryOK(reg)
  BY RegistryStart DEF RInv
<1> QED
  BY <1>1, <1>4, <1>5, <1>6, <1>7, <1>8, Zenon DEF OInv

\* A step, or a pause, keeps the invariant.
LEMMA OracleInductive == OInv /\ [Next]_vars => OInv'
<1> SUFFICES ASSUME OInv, [Next]_vars PROVE OInv'
  OBVIOUS
<1>1. CASE Next
  BY <1>1, OracleStep
<1>2. CASE UNCHANGED vars
  <2>1. SubmissionsOwned' /\ BoundsOrdered' /\ RegistryOK(reg')
    BY <1>2 DEF vars, OInv, SubmissionsOwned, KnownFeed, BoundsOrdered, MaxRelativeSkew
  <2> QED
    BY <1>2, <2>1, Zenon DEF vars, OInv
<1> QED
  BY <1>1, <1>2

\* Nothing of a removed signer or a purged feed is left to count again later,
\* whatever signers and feeds there are and in whatever order signers submit
\* and the owner adds, removes and purges.
THEOREM NothingLeftBehind == Spec => []SubmissionsOwned
<1>1. OInv => SubmissionsOwned
  BY Zenon DEF OInv
<1> QED
  BY <1>1, OracleStart, OracleInductive, PTL DEF Spec

\* The setters of the owner keep the bounds in order, in whatever order they
\* are called.
THEOREM BoundsStayOrdered == Spec => []BoundsOrdered
<1>1. OInv => BoundsOrdered
  BY Zenon DEF OInv
<1> QED
  BY <1>1, OracleStart, OracleInductive, PTL DEF Spec

\* An aggregate that a step writes while the stored submissions reach the
\* quorum is a price no minority of the signers could have moved.
LEMMA SupportStep ==
  ASSUME OInv, Next, NEW f \in Feed, feeds'[f].aggregate \notin {feeds[f].aggregate, None}
  PROVE  HonestlySupported(config, feeds[f], Cluster(config, feeds[f]))'
<1>1. OInv' /\ now' = now /\ Supported(config', feeds'[f])
  BY OracleStep DEF AggregatesSound
<1>2. PICK c \in Config, rec \in Record : c = config' /\ rec = feeds'[f]
  BY <1>1 DEF OInv
<1>3. PICK C : C = Cluster(c, rec)
  BY Zenon
<1>4. Cluster(config, feeds[f])' = C
  BY <1>1, <1>2, <1>3 DEF Cluster, Kept, NewestStamp, MaxRelativeSkew
<1>5. Quorum(c, rec, C) => MinorityCannotMove(c, rec, C)
  <2> SUFFICES ASSUME Quorum(c, rec, C) PROVE MinorityCannotMove(c, rec, C)
    BY Zenon
  <2>1. Clustered(c, rec, C)
    BY <1>3, QuorumClusters, Zenon
  <2>2. rec.aggregate.price = MedianOf(rec, C)
    BY <1>1, <1>2, <1>3 DEF Supported
  <2> QED
    BY <2>1, <2>2, QuorumSupports, Zenon
<1>6. Quorum(config, feeds[f], Cluster(config, feeds[f]))' = Quorum(c, rec, C)
  BY <1>1, <1>2, <1>4, Zenon DEF Quorum, Kept, SpreadFree, WithinSpread, PricesOf
<1>7. MinorityCannotMove(config, feeds[f], Cluster(config, feeds[f]))' = MinorityCannotMove(c, rec, C)
  BY <1>1, <1>2, <1>4 DEF MinorityCannotMove, BetweenHonest, PricesOf
<1> QED
  BY <1>5, <1>6, <1>7, Zenon DEF HonestlySupported

\* A faulty minority cannot move the price, however many signers there are and
\* whatever they post: every aggregate written lies, up to the spread, between
\* two prices of signers outside any such minority.
THEOREM MinorityNeverMoves == Spec => PriceNeedsHonestSupport
<1>1. OInv /\ [Next]_vars =>
        [\A f \in DOMAIN feeds : feeds'[f].aggregate \notin {feeds[f].aggregate, None}
           => HonestlySupported(config, feeds[f], Cluster(config, feeds[f]))']_vars
  <2> SUFFICES ASSUME OInv, Next, NEW f \in DOMAIN feeds,
                      feeds'[f].aggregate \notin {feeds[f].aggregate, None}
               PROVE  HonestlySupported(config, feeds[f], Cluster(config, feeds[f]))'
    OBVIOUS
  <2>1. DOMAIN feeds = Feed
    BY Zenon DEF OInv
  <2> QED
    BY <2>1, SupportStep, Zenon
<1> QED
  BY <1>1, OracleStart, OracleInductive, PTL DEF Spec, PriceNeedsHonestSupport

-----------------------------------------------------------------------------
(* Reads.                                                                   *)

\* A feed that has a price serves its history from the end.
LEMMA HistoryRead ==
  ASSUME OInv, NEW f \in Feed, NEW limit \in Nat, ReadPriceData(f) # None
  PROVE  LET h == feeds[f].history
             r == ReadPriceHistory(f, limit)
         IN  /\ ReadPriceData(f) = feeds[f].aggregate /\ feeds[f].aggregate \in Aggregate
             /\ h \in Seq(Aggregate) /\ Len(h) >= 1 /\ h[Len(h)] = feeds[f].aggregate
             /\ r \in Seq(Aggregate) /\ Len(r) = Lesser(limit, Len(h))
             /\ \A i \in 1..Len(r) : r[i] = h[Len(h) - i + 1]
<1>0. PICK h, r : h = feeds[f].history /\ r = ReadPriceHistory(f, limit)
  BY Zenon
<1>1. ReadPriceData(f) = feeds[f].aggregate /\ feeds[f].aggregate # None
  BY DEF ReadPriceData
<1>2. h \in Seq(Aggregate)
  BY <1>0 DEF OInv, Record
<1>3. feeds[f].aggregate \in Aggregate
  BY <1>1, Zenon DEF OInv, Record
<1>4. h # <<>> /\ h[Len(h)] = feeds[f].aggregate
  BY <1>0, <1>1 DEF OInv, HistoryOK
<1>5. Len(h) >= 1 /\ Len(h) \in Nat /\ h[Len(h)] = feeds[f].aggregate
  BY <1>4
<1>6. PICK k : k = Lesser(limit, Len(h))
  OBVIOUS
<1>7. k \in 0..Len(h)
  BY <1>5, <1>6 DEF Lesser
<1>8. r = [i \in 1..k |-> h[Len(h) - i + 1]]
  BY <1>0, <1>6 DEF ReadPriceHistory
<1>9. \A i \in 1..k : Len(h) - i + 1 \in 1..Len(h)
  BY <1>5, <1>7
<1>10. \A i \in 1..k : h[Len(h) - i + 1] \in Aggregate
  BY <1>2, <1>9
<1>11. r \in Seq(Aggregate) /\ Len(r) = k /\ \A i \in 1..k : r[i] = h[Len(h) - i + 1]
  BY <1>7, <1>8, <1>10
<1> QED
  BY <1>0, <1>1, <1>2, <1>3, <1>5, <1>6, <1>11, Zenon

\* An asset of the mapping has a feed.
LEMMA MappedFeed ==
  ASSUME OInv, NEW a \in DOMAIN reg.mapping
  PROVE  reg.mapping[a] \in Feed
<1>1. reg.mapping[a] \in DOMAIN reg.feed.index
  BY DEF OInv, RegistryOK, MappingOK
<1> QED
  BY <1>1 DEF OInv, RegistryOK, IndexOK, Range

\* prices() starts with lastprice(), or both are empty.
LEMMA LastIsFirst ==
  ASSUME OInv, NEW a \in DOMAIN reg.mapping
  PROVE  RecentPrices(a, 1) = IF LastPrice(a) = None THEN <<>> ELSE <<LastPrice(a)>>
<1>1. PICK f \in Feed : f = reg.mapping[a]
  BY MappedFeed
<1>2. PICK r : r = ReadPriceHistory(f, 1)
  OBVIOUS
<1>3. RecentPrices(a, 1) = [i \in DOMAIN r |-> ToReflector(r[i])]
  BY <1>1, <1>2 DEF RecentPrices
<1>4. CASE ReadPriceData(f) = None
  <2>1. r = <<>>
    BY <1>2, <1>4 DEF ReadPriceHistory
  <2>2. RecentPrices(a, 1) = <<>>
    BY <1>3, <2>1
  <2>3. LastPrice(a) = None
    BY <1>1, <1>4 DEF LastPrice
  <2> QED
    BY <2>2, <2>3
<1>5. CASE ReadPriceData(f) # None
  <2>0. PICK h : h = feeds[f].history
    BY Zenon
  <2>1. PICK g \in Aggregate : g = feeds[f].aggregate /\ g = ReadPriceData(f)
    BY <1>5, HistoryRead, Zenon
  <2>2. h \in Seq(Aggregate) /\ Len(h) >= 1 /\ h[Len(h)] = g
    BY <1>2, <1>5, <2>0, <2>1, HistoryRead, Zenon
  <2>3. /\ r \in Seq(Aggregate) /\ Len(r) = Lesser(1, Len(h))
        /\ \A i \in 1..Len(r) : r[i] = h[Len(h) - i + 1]
    BY <1>2, <1>5, <2>0, HistoryRead, Zenon
  <2>4. PICK n \in Nat : n = Len(h) /\ n >= 1
    BY <2>2
  <2>5. r[1] = g /\ DOMAIN r = 1..1
    <3>1. Lesser(1, n) = 1 /\ n - 1 + 1 = n
      BY <2>4 DEF Lesser
    <3>2. Len(r) = 1
      BY <2>3, <2>4, <3>1, Zenon
    <3>3. r \in Seq(Aggregate)
      BY <2>3, Zenon
    <3>4. DOMAIN r = 1..1 /\ 1 \in 1..Len(r)
      BY <3>2, <3>3
    <3>5. r[1] = h[n - 1 + 1]
      BY <2>3, <2>4, <3>4, Zenon
    <3> QED
      BY <2>2, <2>4, <3>1, <3>4, <3>5, Zenon
  <2>6. LastPrice(a) = ToReflector(g)
    BY <1>1, <1>5, <2>1, Zenon DEF LastPrice
  <2>7. ToReflector(g) \in [price : Nat, timestamp : Nat]
    <3>1. g.price \in Nat /\ g.package \in Nat
      BY DEF Aggregate
    <3>2. g.package \div MS_PER_SECOND \in Nat
      BY <3>1, ConstantsAreSound
    <3> QED
      BY <3>1, <3>2 DEF ToReflector
  <2>8. ToReflector(g) # None
    BY <2>7, NoneIsNoRecord, Zenon
  <2>9. RecentPrices(a, 1) = <<ToReflector(g)>>
    BY <1>3, <2>5
  <2> QED
    BY <2>6, <2>8, <2>9, Zenon
<1> QED
  BY <1>4, <1>5

\* price() finds the newest entry that is no later than asked.
LEMMA DatedReadIsNewest ==
  ASSUME OInv, NEW a \in DOMAIN reg.mapping, NEW t \in Nat
  PROVE  LET seen == {e \in Range(feeds[reg.mapping[a]].history) : e.package \div MS_PER_SECOND <= t}
             got  == ClosestEntry(a, t)
         IN IF ReadPriceData(reg.mapping[a]) = None \/ seen = {} THEN PriceAt(a, t) = None
            ELSE /\ got \in seen /\ PriceAt(a, t).timestamp <= t
                 /\ \A e \in seen : e.package < got.package
                                    \/ (e.package = got.package /\ e.write <= got.write)
<1>1. PICK f \in Feed : f = reg.mapping[a]
  BY MappedFeed
<1>2. PICK r : r = ReadPriceHistory(f, MAX_HISTORY_LEN)
  OBVIOUS
<1>3. ClosestEntry(a, t) = FoundIn(r, t)
  BY <1>1, <1>2, Zenon DEF ClosestEntry, FoundIn
<1>4. MAX_HISTORY_LEN \in Nat /\ MS_PER_SECOND \in Nat \ {0}
  BY ConstantsAreSound, Zenon
<1>5. CASE ReadPriceData(f) = None
  <2>1. r = <<>> /\ r \in Seq(Aggregate) /\ Len(r) = 0
    BY <1>2, <1>5 DEF ReadPriceHistory
  <2>2. Best(r, Len(r), t, FoundIn(r, t))
    <3>1. \A i, j \in 1..Len(r) : i <= j => r[j].write <= r[i].write
      BY <2>1
    <3> QED
      BY <2>1, <3>1, LoopFindsBest, Zenon
  <2>3. FoundIn(r, t) = None
    BY <2>1, <2>2 DEF Best
  <2>4. PriceAt(a, t) = None
    BY <1>3, <2>3 DEF PriceAt
  <2> QED
    BY <1>1, <1>5, <2>4, Zenon
<1>6. CASE ReadPriceData(f) # None
  <2>0. PICK h : h = feeds[f].history
    BY Zenon
  <2>1. h \in Seq(Aggregate) /\ Len(h) \in Nat
    BY <1>4, <1>6, <2>0, HistoryRead
  <2>2. /\ r \in Seq(Aggregate) /\ Len(r) = Lesser(MAX_HISTORY_LEN, Len(h))
        /\ \A i \in 1..Len(r) : r[i] = h[Len(h) - i + 1]
    BY <1>2, <1>4, <1>6, <2>0, HistoryRead, Zenon
  <2>3. /\ Len(h) <= MAX_HISTORY_LEN
        /\ \A i, j \in 1..Len(h) : i <= j => h[i].write <= h[j].write
    BY <2>0, Zenon DEF OInv, HistoryOK, WritesOrdered
  <2>4. Len(r) = Len(h)
    BY <1>4, <2>1, <2>2, <2>3 DEF Lesser
  <2>5. \A i \in 1..Len(h) : Len(h) - i + 1 \in 1..Len(h) /\ r[i] = h[Len(h) - i + 1]
    BY <2>1, <2>2, <2>4
  <2>6. \A i, j \in 1..Len(r) : i <= j => r[j].write <= r[i].write
    <3> SUFFICES ASSUME NEW i \in 1..Len(h), NEW j \in 1..Len(h), i <= j
                 PROVE  r[j].write <= r[i].write
      BY <2>4
    <3> DEFINE k == Len(h) - j + 1
               l == Len(h) - i + 1
    <3>1. k \in 1..Len(h) /\ l \in 1..Len(h) /\ k <= l
      BY <2>1
    <3>2. r[j] = h[k] /\ r[i] = h[l]
      BY <2>5
    <3> HIDE DEF k, l
    <3> QED
      BY <2>3, <3>1, <3>2, Zenon
  <2>7. Best(r, Len(r), t, FoundIn(r, t))
    BY <2>2, <2>6, LoopFindsBest, Zenon
  <2>8. \A e : e \in Range(h) <=> \E j \in 1..Len(r) : e = r[j]
    <3>1. ASSUME NEW j \in 1..Len(r) PROVE r[j] \in Range(h)
      <4>1. DOMAIN h = 1..Len(h)
        BY <2>1
      <4>2. Len(h) - j + 1 \in DOMAIN h /\ r[j] = h[Len(h) - j + 1]
        BY <2>4, <2>5, <4>1, Zenon
      <4> QED
        BY <4>2, Zenon DEF Range
    <3>2. ASSUME NEW e \in Range(h) PROVE \E j \in 1..Len(r) : e = r[j]
      <4>1. PICK i \in 1..Len(h) : e = h[i]
        BY <2>1 DEF Range
      <4>2. Len(h) - i + 1 \in 1..Len(r) /\ Len(h) - (Len(h) - i + 1) + 1 = i
        BY <2>1, <2>4
      <4> QED
        BY <2>4, <2>5, <4>1, <4>2, Zenon
    <3> QED
      BY <3>1, <3>2, Zenon
  <2> DEFINE seen == {e \in Range(h) : e.package \div MS_PER_SECOND <= t}
             got  == FoundIn(r, t)
  <2>9. \A e : e \in seen <=> \E j \in 1..Len(r) : e = r[j] /\ Early(e, t)
    BY <2>8, Zenon DEF Early
  <2>10. CASE seen = {}
    <3>1. got = None
      BY <2>7, <2>9, <2>10, Zenon DEF Best
    <3>2. PriceAt(a, t) = None
      BY <1>3, <3>1 DEF PriceAt
    <3> QED
      BY <1>1, <2>0, <2>10, <3>2, Zenon
  <2>11. CASE seen # {}
    <3>1. /\ got \in seen
          /\ \A e \in seen : e.package < got.package
                             \/ (e.package = got.package /\ e.write <= got.write)
      BY <2>7, <2>9, <2>11 DEF Best
    <3>2. got \in Aggregate
      BY <2>2, <2>9, <3>1
    <3>3. got # None
      BY <3>2, NoneIsNoRecord, Zenon DEF Aggregate
    <3>4. PriceAt(a, t) = ToReflector(got)
      BY <1>3, <3>3, Zenon DEF PriceAt
    <3>5. PriceAt(a, t).timestamp <= t
      BY <3>1, <3>4 DEF ToReflector
    <3> QED
      BY <1>1, <1>3, <1>6, <2>0, <2>11, <3>1, <3>5, Zenon
  <2> QED
    BY <2>10, <2>11, Zenon
<1> QED
  BY <1>5, <1>6, Zenon

\* lastprice(), prices() and price() of an asset never disagree, for every
\* number of signers, feeds and assets and every length of the history.
THEOREM ReadsAgree == Spec => []HistoryIsFaithful
<1>1. OInv => HistoryIsFaithful
  <2> SUFFICES ASSUME OInv PROVE HistoryIsFaithful
    BY Zenon
  <2>1. HistoryCurrent
    <3> SUFFICES ASSUME NEW f \in Feed
                 PROVE  LET h == feeds[f].history
                        IN /\ Len(h) <= MAX_HISTORY_LEN
                           /\ \A i \in 1..(Len(h) - 1) : h[i].write <= h[i + 1].write
                           /\ feeds[f].aggregate # None => h # <<>> /\ h[Len(h)] = feeds[f].aggregate
      BY Zenon DEF HistoryCurrent, OInv
    <3>1. PICK h \in Seq(Aggregate) : h = feeds[f].history
      BY DEF OInv, Record
    <3>2. WritesOrdered(h, now * MS_PER_SECOND)
          /\ (feeds[f].aggregate # None => h # <<>> /\ h[Len(h)] = feeds[f].aggregate)
      BY <3>1 DEF OInv, HistoryOK
    <3>3. \A i \in 1..(Len(h) - 1) : i \in 1..Len(h) /\ i + 1 \in 1..Len(h) /\ i <= i + 1
      OBVIOUS
    <3>4. Len(h) <= MAX_HISTORY_LEN /\ \A i \in 1..(Len(h) - 1) : h[i].write <= h[i + 1].write
      BY <3>2, <3>3, Zenon DEF WritesOrdered
    <3> QED
      BY <3>1, <3>2, <3>4, Zenon
  <2>2. \A t \in 0..MaxTime : t \in Nat
    BY ConstantsAreSound
  <2>3. PriceAtIsNewest
    BY <2>2, DatedReadIsNewest DEF PriceAtIsNewest
  <2> QED
    BY <2>1, <2>3, LastIsFirst, Zenon DEF HistoryIsFaithful
<1> QED
  BY <1>1, OracleStart, OracleInductive, PTL DEF Spec
=============================================================================
