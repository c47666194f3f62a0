------------------------------ MODULE MCTenants ------------------------------
(* A small instance of Tenants. *)
EXTENDS Tenants
MCRoles == {"Owner", "Admin"}
MCManagers == {"Owner", "Admin"}
=============================================================================
