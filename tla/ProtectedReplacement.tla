------------------------ MODULE ProtectedReplacement ------------------------
(***************************************************************************)
(* What the updater promises of the images the services run, without a     *)
(* word of how: an image changes only inside an update of its service, one *)
(* update at a time; once an outcome is decided the image stays; "success" *)
(* is said of the new image only and "rolled_back" and "no_change" of the  *)
(* old one only; an update given up without an outcome changed nothing.    *)
(* "failed" and an interruption promise nothing about the image.           *)
(***************************************************************************)
CONSTANTS Service, Image, None

VARIABLES
    image,    \* the image each service runs
    update,   \* None, or the update in progress
    verdict   \* None, or the outcome recorded last

vars == <<image, update, verdict>>

Outcomes == {"success", "no_change", "rolled_back", "failed"}

Verdict == [service: Service, outcome: Outcomes, from: Image, to: Image]

Init == image \in [Service -> Image] /\ update = None /\ verdict = None

Begin(s) ==
    /\ update = None
    /\ update' = [service |-> s, decided |-> FALSE, from |-> image[s]]
    /\ UNCHANGED <<image, verdict>>

Undecided == update # None /\ ~update.decided

Replace ==
    /\ Undecided
    /\ \E i \in Image : image' = [image EXCEPT ![update.service] = i]
    /\ UNCHANGED <<update, verdict>>

Decide ==
    /\ update' = [service |-> update.service, decided |-> TRUE, from |-> update.from]
    /\ UNCHANGED image

Truthful(outcome, from, to, now) ==
    /\ outcome = "success" => now = to /\ from # to
    /\ outcome \in {"no_change", "rolled_back"} => now = from

Record(outcome) ==
    /\ Undecided /\ Decide
    /\ \E to \in Image :
        /\ Truthful(outcome, update.from, to, image[update.service])
        /\ verdict' = [service |-> update.service, outcome |-> outcome,
                       from |-> update.from, to |-> to]

GiveUp ==
    /\ Undecided /\ Decide
    /\ image[update.service] = update.from
    /\ UNCHANGED verdict

End ==
    /\ update # None /\ update.decided
    /\ update' = None
    /\ UNCHANGED <<image, verdict>>

(* A restart: the files may lag behind what was recorded. *)
Interrupt ==
    /\ update' = None
    /\ verdict' \in Verdict \cup {None}
    /\ UNCHANGED image

Next ==
    \/ \E s \in Service : Begin(s)
    \/ Replace
    \/ \E outcome \in Outcomes : Record(outcome)
    \/ GiveUp \/ End \/ Interrupt

Spec == Init /\ [][Next]_vars
=============================================================================
