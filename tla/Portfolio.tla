------------------------------- MODULE Portfolio -------------------------------
(***************************************************************************)
(* What a wallet has invested in a project, as the rows of Investing say,  *)
(* is summed up in three places: for its portfolio (myInvested), for the   *)
(* tickets it may still use, and for those the project may still sell      *)
(* (both in aggregateUsersProjectTicket).                                  *)
(*                                                                         *)
(* Rows are written by the webhook alone, without pda_account and          *)
(* on_chain_total, and never with the status NOT_VERIFY, which all three   *)
(* leave out.                                                              *)
(***************************************************************************)
EXTENDS Investing, Integers, FiniteSetsExt

CONSTANTS
    invest   \* what the log of each transaction says: its wallet, project and total

ASSUME PortfolioAssumption ==
    /\ IsFiniteSet(Signatures)
    /\ \A s \in Signatures :
         /\ DOMAIN invest[s] = {"wallet", "project", "total"}
         /\ invest[s].total \in Nat

Investors == {invest[s].wallet : s \in Signatures}
InvestedIn == {invest[s].project : s \in Signatures}

TotalOf(row) == invest[row[1]].total
SumOf(among) == SumFunction([row \in among |-> TotalOf(row)])

RowsOf(wallet) == {row \in rows : invest[row[1]].wallet = wallet}
RowsIn(project, among) == {row \in among : invest[row[1]].project = project}

\* myInvested: the wallet's rows, grouped by project.  A project that is gone is left out.
MyInvested(wallet) ==
    [p \in {invest[row[1]].project : row \in RowsOf(wallet)} |->
        SumOf(RowsIn(p, RowsOf(wallet)))]

\* What it says of a project, if anything.
Invested(wallet, project) ==
    IF project \in DOMAIN MyInvested(wallet) THEN MyInvested(wallet)[project] ELSE 0

\* Variant with a bug: rows are counted, whatever their total.
UsedRows(wallet, project) ==
    Cardinality(RowsIn(project, RowsOf(wallet)))

\* used_ticket: n + (total || on_chain_total) is NaN from a row of zero tickets on, and
\* NaN || 0 is zero.
UsedTicket(wallet, project) ==
    LET used == RowsIn(project, RowsOf(wallet))
    IN  IF \E row \in used : TotalOf(row) = 0 THEN 0 ELSE SumOf(used)

\* all_used_ticket: the sum of $ifNull(total, on_chain_total).
AllUsedTicket(project) == SumOf(RowsIn(project, rows))

ToldBy(wallet, project) ==
    {s \in Told : invest[s].wallet = wallet /\ invest[s].project = project}

\* What a wallet sees of its investments counts all it was told of, is what its offers
\* are made from, and adds up to what the project has sold, although each of the three
\* is summed up elsewhere, and whatever was delivered twice or in part.  Excepted are
\* the tickets used by a wallet with a transaction of no ticket.
PortfolioAgrees ==
    \A p \in InvestedIn :
        /\ \A w \in Investors :
              /\ \/ UsedTicket(w, p) = Invested(w, p)
                 \/ \E row \in RowsIn(p, RowsOf(w)) : TotalOf(row) = 0
              /\ SumFunction([s \in ToldBy(w, p) |-> invest[s].total]) <= Invested(w, p)
        /\ SumFunction([w \in Investors |-> Invested(w, p)]) = AllUsedTicket(p)

=============================================================================
