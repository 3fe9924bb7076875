------------------------ MODULE MCCreateNotification ------------------------
(***************************************************************************)
(* Small instances of CreateNotification for TLC.                          *)
(***************************************************************************)
EXTENDS CreateNotification

CONSTANT u1

ASSUME InvalidIsNoUser == u1 \in User

Event(to, email, file) == [to |-> to, email |-> email, file |-> file, fits |-> TRUE]

MCWish == {Event(<<u1, Outside>>, TRUE, TRUE), Event(<<Outside>>, TRUE, FALSE),
           Event(<<u1>>, FALSE, FALSE), Event(<<u1, Invalid>>, TRUE, FALSE),
           [Event(<<u1>>, TRUE, TRUE) EXCEPT !.fits = FALSE]}

MCChannel == {"email", "in_app", "push"}

Only1(c, s) == [d \in Channel |-> IF d = c THEN s ELSE "inherit"]

MCPatch  == {Only1("email", "off"), Only1("in_app", "off"), Only1("in_app", "on")}
MCTenant == {[c \in Channel |-> "off"]}

AllFaults == FaultKind
=============================================================================
