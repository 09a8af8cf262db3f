---------------------------- MODULE MCProxyReload -----------------------------
(* Model checking instance of ProxyReload. *)
EXTENDS ProxyReload
=============================================================================
