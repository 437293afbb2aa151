----------------------------- MODULE RolesGuard -----------------------------
(* The guard in front of the routes: the roles a handler is decorated with.  *)

Role == {"ADMIN", "DRIVER", "CUSTOMER"}

canActivate(role, requiredRoles) == requiredRoles = {} \/ role \in requiredRoles

=============================================================================
