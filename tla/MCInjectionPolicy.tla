--------------------------- MODULE MCInjectionPolicy ---------------------------
(***************************************************************************)
(* A small instance of InjectionPolicy.                                    *)
(***************************************************************************)
EXTENDS InjectionPolicy

CONSTANTS w1, w2, own, none

Container(name, always, gw) == [name |-> name, always |-> always, gateway |-> gw]

Plain == [NoPod EXCEPT !.enabled = TRUE]

App == [Plain EXCEPT !.initContainers = <<Container("app", FALSE, none)>>, !.volumes = <<"data">>]

ByHand == Container(SidecarContainer, TRUE, own)

\* Pods with and without the label and containers of their own; a gateway's pod; one in the
\* host's network; and pods whose author has written a sidecar, first or not, or a volume of
\* the same name.
ThePods ==
    {Plain, App, [App EXCEPT !.enabled = FALSE], [App EXCEPT !.component = TRUE],
     [App EXCEPT !.hostNetwork = TRUE],
     [App EXCEPT !.initContainers = <<ByHand>> \o @], [App EXCEPT !.initContainers = @ \o <<ByHand>>],
     [App EXCEPT !.volumes = <<"wg-key">>]}
================================================================================
