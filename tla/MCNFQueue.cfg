\* Every configuration, with nft and with iptables, and faults.
CONSTANTS
  web = web
  shell = shell
  dns = dns
  Forwarded = {web}
  Local = {shell}
  Protected = {dns}
  Tcp = {web}
  Configs <- MCConfigs
  Faults <- MCFaults
  Packet <- MCPacket
  MaxQueueLen = 2
  MaxLeft = 5
SPECIFICATION Spec
INVARIANTS RulesComplete SettledNotQueued BlockedStaysBlocked ProtectedBypass
