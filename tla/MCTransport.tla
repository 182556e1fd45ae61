------------------------------ MODULE MCTransport ------------------------------
(***************************************************************************)
(* A breaker with a window of three: three calls that try twice, two that  *)
(* try three times or four that try once; or two polls that share a token; *)
(* or a source that takes tokens; or a draft that is published and ended   *)
(* with three attempts of each.                                            *)
(***************************************************************************)
EXTENDS EbaySell

CONSTANTS a, b, c, d, p, q

Load(calls, attempts, polls) ==
  [calls |-> calls, maxAttempts |-> attempts, polls |-> polls,
   limited |-> FALSE, sells |-> FALSE]

Loads == {Load({a, b, c}, 2, {}), Load({a, b}, 3, {}), Load({a, b, c, d}, 1, {}),
          Load({}, 1, {p, q}),
          [Load({}, 1, {}) EXCEPT !.limited = TRUE],
          [Load({}, 3, {}) EXCEPT !.sells = TRUE]}
===============================================================================
