SPECIFICATION SpecCapturas
CONSTANTS
  Grupo = {ssh, redis}
  SinShell = {redis}
  Hueco = 2
  MaxTs = 5
  MaxTanda = 3
  Tandas <- MCTandas
  Cabecera = {h1, h2}
  Vacia = vacia
  Bufer = 3
  MaxLineas = 2
  MaxFicheros = 3
  MaxTruncados = 1
  MaxCaidas = 1
  Conexion = {c1, c2}
  Visitante = {v1, v2}
  Puesto = {"mysql", "postgres", "redis", "ftp", "smtp", "rdp", "vnc", "http",
            "elastic", "jenkins", "grafana", "docker", "mongodb"}
  MaxSimultaneas = 1
  c2 = c2
  Companeras = {"redis", "rdp"}
  Presupuesto = 2
  Plazo = 2
  TarpitUmbral = 1
  TarpitTope = 1
  VentanaOlvido = 1
  MaxRecordados = 2
  MaxContactos = 3
INVARIANTS
  TiposDeLaCaptura
  FilasSonLosAtaques
  SinMezclas
  RecuerdoExacto
PROPERTIES
  NadaSeDeja
  TodaLineaLlega
  TodaSesionTermina
CHECK_DEADLOCK FALSE
