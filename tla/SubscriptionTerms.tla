-------------------------- MODULE SubscriptionTerms --------------------------
(***************************************************************************)
(* Subscription dates (subscription.util.ts), counted in whole months.     *)
(* organizations.subscription_expires_at is a natural number, or Unlimited *)
(* for NULL.  addMonths, which clamps the day of the month to the length of *)
(* the target month, is + at this granularity.                             *)
(***************************************************************************)
EXTENDS Naturals

CONSTANT Unlimited      \* NULL: a subscription without end

Term == Nat \union {Unlimited}

ASSUME UnlimitedAssumption == Unlimited \notin Nat

Larger(a, b) == IF a > b THEN a ELSE b

\* isExpired: a subscription that ends now is over; NULL never is.
IsExpired(expires, now) == expires # Unlimited /\ expires <= now

\* Mutant: months of an early renewal are counted from today.
ExtendFromToday(expires, months, now) == now + months

\* extendSubscription: months are added to a subscription that still runs,
\* and count from now when it is over or when there was no end.
Extend(expires, months, now) ==
  IF expires # Unlimited /\ expires > now THEN expires + months ELSE now + months

\* What a code for duration d leaves an organisation with (NULL: no end).
Renewed(expires, d, now) ==
  IF d = Unlimited THEN Unlimited ELSE Extend(expires, d, now)
=============================================================================
