-------------------------- MODULE MCServerLifecycle --------------------------
(* ServerLifecycle for TLC.                                                  *)
EXTENDS ServerLifecycle

cmdline(mock, isVault, aws, viaLogin, withMetrics) ==
    [mockSecrets |-> mock, vaultEnabled |-> isVault, secretPrefix |-> aws,
     login |-> viaLogin, metrics |-> withMetrics]

\* Vault with a login and with a token, AWS, the in-memory store over Vault, nothing.
CommandLines ==
    {cmdline(FALSE, TRUE, FALSE, TRUE, TRUE), cmdline(FALSE, TRUE, TRUE, FALSE, FALSE),
     cmdline(FALSE, FALSE, TRUE, FALSE, FALSE), cmdline(TRUE, TRUE, FALSE, TRUE, FALSE),
     cmdline(FALSE, FALSE, FALSE, FALSE, TRUE)}
=============================================================================
