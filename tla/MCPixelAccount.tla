--------------------------- MODULE MCPixelAccount ----------------------------
(***************************************************************************)
(* Two chains, one of them Pixel, two keys and the operations they signed  *)
(* for either chain and either entry point, with and without initCode, and *)
(* operations whose initCode or signature is another key's.                *)
(***************************************************************************)
EXTENDS PixelAccount

Signed(body, key, chain, ep) ==
    [body |-> body, sig |-> [key |-> key, chain |-> chain, entryPoint |-> ep, body |-> body]]

Body(sender, nonce, initCode, value) ==
    [sender |-> sender, nonce |-> nonce, initCode |-> initCode, value |-> value]

MCOps ==
    {Signed(Body("a", n, i, 2), "a", c, "ep") :
        n \in {0, 1}, i \in {"a", NoInit}, c \in Chains}
    \cup {Signed(Body("b", n, NoInit, 3), "b", "pixel", "ep") : n \in {0, 1}}
    \cup {Signed(Body("b", 0, "a", 2), "b", "pixel", "ep"),
          Signed(Body("b", 0, "b", 2), "b", "goerli", "other"),
          Signed(Body("a", 0, NoInit, 3), "b", "goerli", "ep")}
=============================================================================
