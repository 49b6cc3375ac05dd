-------------------------- MODULE MCRenderStream --------------------------
(* Instances of RenderStream for TLC. *)
EXTENDS RenderStream

CONSTANTS self, remote, wnd0, wnd1, small, large

MCStreams   == {self, remote}
MCRenderers == {wnd0, wnd1}
MCOneWindow == {wnd0}
MCSizes     == {small, large}
=============================================================================
