---------------------------- MODULE MCProvisioning ----------------------------
\* Provisioning with the constants of MCProvision.cfg.
EXTENDS Provisioning
===============================================================================
