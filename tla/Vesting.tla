-------------------------------- MODULE Vesting --------------------------------
(***************************************************************************)
(* What incomingStreamsOfOwner and myVesting make of the vesting streams   *)
(* that StreamFlow keeps on chain for a wallet.  The instants and periods  *)
(* of a stream are seconds, the server's clock is milliseconds; amounts    *)
(* are whole tokens here.                                                  *)
(***************************************************************************)
EXTENDS Integers, Sequences, FiniteSetsExt

StreamFields ==
    {"start", "end", "cliff", "period", "amount_per_period", "total_amount",
     "cliff_amount", "withdrawn_amount"}

\* Math.ceil of a quotient.
CeilDiv(a, b) == (a + b - 1) \div b

\* A stream with periods of a second pays everything at once: the TGE.
IsCliff(s) == s["period"] = 1

\* Variant with a bug: the parentheses around the choice are missing.
ReleaseRangeUnbracketed(s, now) ==
    IF now < 1000 * s["end"]
      THEN now
      ELSE 1000 * s["end"] + s["amount_per_period"] - 1000 * (s["start"] + s["period"])

\* Variant with a bug: nothing is added at the end.
ReleaseRangeToEnd(s, now) ==
    (IF now < 1000 * s["end"] THEN now ELSE 1000 * s["end"])
        - 1000 * (s["start"] + s["period"])

\* The time since the first period was over; after the end an amount of tokens is
\* added to it.
ReleaseRange(s, now) ==
    (IF now < 1000 * s["end"] THEN now ELSE 1000 * s["end"] + s["amount_per_period"])
        - 1000 * (s["start"] + s["period"])

\* The number of periods that count as released.
ReleasedRatio(s, now) ==
    CASE IsCliff(s) -> 1
      [] ~IsCliff(s) /\ ReleaseRange(s, now) < 0 -> 0
      [] OTHER -> CeilDiv(ReleaseRange(s, now), 1000 * s["period"])

Released(s, now) ==
    ReleasedRatio(s, now) * s["amount_per_period"]
        + (IF now >= 1000 * s["cliff"] THEN s["cliff_amount"] ELSE 0)

Available(s, now) == Released(s, now) - s["withdrawn_amount"]

\* Array(length) throws a RangeError unless its length is a natural number.
HasSchedule(s) ==
    /\ s["total_amount"] >= s["cliff_amount"]
    /\ (s["total_amount"] - s["cliff_amount"]) % s["amount_per_period"] = 0

\* The vesting_schedule of a linear stream, without the entry of its cliff: when
\* each of its periods pays.
PeriodTimes(s) ==
    [i \in 1 .. (s["total_amount"] - s["cliff_amount"]) \div s["amount_per_period"] |->
        1000 * (s["start"] + i * s["period"])]

\* The streams the answer is made of: the first cliff and the first linear stream.
FirstOf(streams, cliff) ==
    LET places == {i \in DOMAIN streams : IsCliff(streams[i]) = cliff}
    IN  IF places = {} THEN {} ELSE {streams[Min(places)]}

\* vesting_pool: the stream it shows, if there is one, and whether it can be claimed;
\* claimable is what the project says of that.
VestingPool(streams, claimable, now) ==
    LET cliff == {s \in FirstOf(streams, TRUE) : Available(s, now) > 0}
        shown == IF cliff # {} THEN cliff ELSE FirstOf(streams, FALSE)
    IN  {[stream |-> s, is_active |-> Available(s, now) > 0 /\ claimable] : s \in shown}

=============================================================================
