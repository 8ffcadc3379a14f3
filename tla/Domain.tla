-------------------------------- MODULE Domain --------------------------------
(***************************************************************************)
(* The errors the layers hand to each other (internal/domain/errors.go)    *)
(* and the HTTP status the error handler answers for each of them.  An     *)
(* error of the router keeps its status if that is a 4xx.  Every other     *)
(* error, a driver error for instance, becomes 500.                        *)
(***************************************************************************)
EXTENDS Naturals

StatusOf == [unauthorized   |-> 401,
             forbidden      |-> 403,
             not_found      |-> 404,
             already_exists |-> 409,
             invalid_input  |-> 400]

(* What Fiber refuses by itself: a path that no route has.  Its other 4xx  *)
(* (method, size of the body) end a request before any handler, likewise.  *)
RouterStatus == [no_route |-> 404]

(* Driver errors that reach the error handler unmapped: a violated CHECK   *)
(* constraint, a value longer than its column, and any failure of the      *)
(* connection, the server or the caller.                                   *)
DriverErrors == {"check_violation", "value_too_long", "failure"}

Errors == DOMAIN StatusOf \cup DOMAIN RouterStatus \cup DriverErrors

Classify(err) == CASE err \in DOMAIN StatusOf     -> StatusOf[err]
                   [] err \in DOMAIN RouterStatus -> RouterStatus[err]
                   [] OTHER                        -> 500

Created  == 201
OK       == 200
Replies  == {200, 201, 400, 401, 403, 404, 409, 500}
=============================================================================
