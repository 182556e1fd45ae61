------------------------------ MODULE SaleGuard ------------------------------
(***************************************************************************)
(* What the exit side promises about one inventory item, whatever the      *)
(* retries, duplicates and races underneath: one sale wins and ships, any  *)
(* other is refused and refunded, and from the first sale on the item's    *)
(* listings only ever go away, each of them ended or flagged for a human.  *)
(***************************************************************************)
CONSTANTS Call,      \* deliveries of sale events
          Listing,   \* the listings the item can be sold through
          NoSale     \* no winner yet, different from every listing

VARIABLES winner,    \* the listing whose sale ships
          verdict,   \* verdict[c]: what delivery c was told
          open,      \* listings that still offer the item
          flagged    \* listings handed to a human

guardVars == <<winner, verdict, open, flagged>>

GuardInit == /\ winner = NoSale
             /\ verdict = [c \in Call |-> "none"]
             /\ open \in SUBSET Listing
             /\ flagged = {}

\* Listings leave `open` for good; those that cannot be ended are flagged.
Close == \E S \in SUBSET open : \E F \in SUBSET (S \ {winner'}) :
            /\ open' = open \ S
            /\ flagged' = flagged \cup F

\* The first sale wins; the listing it came through is no longer open.
Claim(c, l) == /\ verdict[c] = "none"
               /\ winner = NoSale
               /\ winner' = l
               /\ verdict' = [verdict EXCEPT ![c] = "ships"]
               /\ Close
               /\ l \notin open'

\* A duplicate of the winning sale gets the winning verdict.
Confirm(c) == /\ verdict[c] = "none"
              /\ winner # NoSale
              /\ winner' = winner
              /\ verdict' = [verdict EXCEPT ![c] = "ships"]
              /\ Close

\* A competing sale is refunded and touches nothing.
Refuse(c) == /\ verdict[c] = "none"
             /\ winner # NoSale
             /\ verdict' = [verdict EXCEPT ![c] = "refund"]
             /\ UNCHANGED <<winner, open, flagged>>

\* The item being sold, more of its listings go away.
Converge == /\ winner # NoSale
            /\ UNCHANGED <<winner, verdict>>
            /\ Close

GuardNext == \/ \E c \in Call, l \in Listing : Claim(c, l)
             \/ \E c \in Call : Confirm(c) \/ Refuse(c)
             \/ Converge

GuardSpec == GuardInit /\ [][GuardNext]_guardVars
===============================================================================
